---- MODULE Spec2Model ----
(***************************************************************************)
(* Chem2TextQA: the multi-source acquisition pipeline.                     *)
(*                                                                         *)
(* Four components are modelled, each with its own specification over the  *)
(* shared variables (the variables of the other components stay parked):   *)
(*   SpecLimiter  utils/rate_limiter.py   RateLimiter.wait, many threads    *)
(*   SpecRetry    utils/retry.py          with_retry around a page fetch    *)
(*   SpecSearch   scrapers/*.py           the adapters' pagination loops    *)
(*   SpecScrape   cli.py                  the orchestrator (scrape)         *)
(* Spec is their union.                                                    *)
(***************************************************************************)
EXTENDS Integers, Sequences, FiniteSets, TLC

\* ------------------------------------------------------------------------
\* Bounds of the model (not program constants)
\* ------------------------------------------------------------------------

\* Clock ticks per second: the unit in which monotonic time is measured.
TicksPerSecond == 6
\* The monotonic clock is observed up to this tick.
MaxTime == 8
\* Number of concurrent callers of one RateLimiter.
NumThreads == 2
\* Total number of wait() calls started on the limiter.
MaxCalls == 3
\* Page sizes, scaled down from the source (PAGE_SIZE = 100 in uspto.py and
\* epo.py, BATCH_SIZE = 500 in pubmed.py) so that full, short and overfull
\* pages can all be enumerated.
USPTO_PAGE_SIZE == 2
EPO_PAGE_SIZE == 2
BATCH_SIZE == 2
\* Largest max_results a search is called with.
MaxResults == 5
\* Upstream records received during one search, over all its pages.
MaxReceived == 4
\* Page fetches observed during one search.
MaxFetches == 4
\* Length of the --source argument, in symbols.
MaxSourceLen == 4
\* Documents one adapter's search hands to the orchestrator.
MaxDocs == 2
\* Most append_documents calls on the path, and most documents per call.
MaxAppends == 2
MaxBatch == 2
\* Length of the date string given to _parse_date, in symbols.
MaxDateLen == 5
\* Inventors of one patent record, and entries of each of its code lists.
MaxInventors == 2
MaxCodes == 2
MaxHeadings == 2
MaxInstances == 2
MaxRequests == 2

Min(a, b) == IF a <= b THEN a ELSE b

None == "None"

\* ------------------------------------------------------------------------
\* State
\* ------------------------------------------------------------------------
VARIABLES
    \* RateLimiter (utils/rate_limiter.py)
    rl_rate,            \* requests_per_second
    clock,              \* time.monotonic(), in ticks
    last_request_time,  \* self._last_request_time
    lock,               \* self._lock: 0 when free, else the holding thread
    rl_pc,              \* position of each thread inside wait()
    rl_now,             \* local `now` of each thread
    rl_wake,            \* earliest tick at which a sleeping thread may wake
    rl_calls,           \* wait() calls started so far
    permits,            \* history: the instants stamped into _last_request_time
    \* with_retry around a page fetch (utils/retry.py, _fetch_page, _fetch_search_page)
    rt_adapter,         \* whose fetch is wrapped: "uspto" or "google_patents"
    rt_pc,              \* "call", "request", "backoff", "returned", "raised"
    rt_attempt,         \* tenacity's attempt_number
    rt_invocations,     \* times the wrapped function has been entered
    rt_events,          \* history: "wait" (limiter) and "request" (HTTP) in order
    rt_outcomes,        \* history: how each invocation ended
    rt_backoffs,        \* history: the backoff sleeps taken
    rt_result,          \* what the caller of the wrapped function got
    \* One adapter's search (scrapers/*.py)
    se_adapter,         \* registry name of the adapter
    se_cred,            \* which credentials are configured (key: serpapi_key or epo_key; secret: epo_secret)
    se_args,            \* [max_results, date_from, date_to] of the call
    se_pc,              \* "start", "loop", "done", "raised"
    se_loc,             \* locals of the pagination loop (cursor, page, range_begin, ...)
    se_documents,       \* the local list `documents`
    se_received,        \* history: titles of the upstream records, in the order received
    se_requests,        \* history: the upstream requests issued
    se_last,            \* kind of the last upstream response
    se_pages,           \* history: what each page fetch received, in order
    se_result,          \* the returned list, or the exception raised
    \* The orchestrator (cli.py, scrape)
    cl_source,          \* --source, a string of symbols
    cl_args,            \* [query, max_results, date_from, date_to]
    cl_output,          \* --output, or None
    cl_pc,              \* "start", "loop", "done", "rejected", "aborted"
    cl_names,           \* source_names
    cl_i,               \* index into source_names of the current iteration
    cl_log,             \* history: construct, search and append calls in order
    cl_failed,          \* index of the source whose adapter raised, 0 if none
    cl_files,           \* storage: path -> the documents appended to it
    cl_total,           \* total_docs
    \* storage/jsonl.py, one path
    st_file,            \* Absent if the path does not exist, else <<its lines>>
    st_pc,              \* "idle", or "off" when the component is not run
    st_calls,           \* number of append_documents calls made
    st_appended,        \* history: every document handed to append_documents, in order
    st_last,            \* history: the last call and what it returned
    \* PubMedScraper._parse_date
    pd_str,             \* date_str, a string of symbols
    pd_pc,              \* "call", "returned", "raised", or "off"
    pd_result,          \* the Optional date returned, or the exception raised
    \* the adapters' record-mapping functions
    mp_kind,            \* the mapping function called: "uspto", "serpapi" or "pubmed"
    mp_record,          \* the upstream record, a dict
    mp_pc,              \* "call", "returned", "raised", or "off"
    mp_doc,             \* Absent for None, else <<the document>>
    \* adapter instances (the scrapers' __init__) and the state they use
    in_entrez,          \* the attributes email and api_key of the module Bio.Entrez
    in_objs,            \* the adapter instances constructed so far, in order
    in_made,            \* history: the credentials each instance sent right after __init__
    in_log              \* history: the instance that issued each upstream request

rlVars == <<rl_rate, clock, last_request_time, lock, rl_pc, rl_now, rl_wake,
            rl_calls, permits>>

rtVars == <<rt_adapter, rt_pc, rt_attempt, rt_invocations, rt_events,
            rt_outcomes, rt_backoffs, rt_result>>

seVars == <<se_adapter, se_cred, se_args, se_pc, se_loc, se_documents,
            se_received, se_requests, se_last, se_pages, se_result>>

clVars == <<cl_source, cl_args, cl_output, cl_pc, cl_names, cl_i, cl_log,
            cl_failed, cl_files, cl_total>>

stVars == <<st_file, st_pc, st_calls, st_appended, st_last>>

pdVars == <<pd_str, pd_pc, pd_result>>

mpVars == <<mp_kind, mp_record, mp_pc, mp_doc>>

inVars == <<in_entrez, in_objs, in_made, in_log>>

vars == <<rlVars, rtVars, seVars, clVars, stVars, pdVars, mpVars, inVars>>

\* What each component leaves alone.
notLimiter == <<rtVars, seVars, clVars, stVars, pdVars, mpVars, inVars>>
notRetry == <<rlVars, seVars, clVars, stVars, pdVars, mpVars, inVars>>
notSearch == <<rlVars, rtVars, clVars, stVars, pdVars, mpVars, inVars>>
notScrape == <<rlVars, rtVars, seVars, stVars, pdVars, mpVars, inVars>>
notStorage == <<rlVars, rtVars, seVars, clVars, pdVars, mpVars, inVars>>
notParse == <<rlVars, rtVars, seVars, clVars, stVars, mpVars, inVars>>
notMapping == <<rlVars, rtVars, seVars, clVars, stVars, pdVars, inVars>>
notInstances == <<rlVars, rtVars, seVars, clVars, stVars, pdVars, mpVars>>

\* ------------------------------------------------------------------------
\* RateLimiter
\* ------------------------------------------------------------------------
Threads == 1..NumThreads

\* The rates an instance is configured with (requests per second).
RateChoices == {2, 3}

\* self._min_interval = 1.0 / requests_per_second, in ticks
MinInterval(rate) == TicksPerSecond \div rate

\* time.sleep(self._min_interval - elapsed)
SleepDuration(min_interval, elapsed) == min_interval - elapsed

\* A plausible slip: reusing the `now` read before the sleep.
StampTimeStale(t) == rl_now[t]
\* self._last_request_time = time.monotonic()
StampTime(t) == clock

InitLimiter ==
    /\ rl_rate \in RateChoices
    /\ clock \in 0..1
    /\ last_request_time = 0
    /\ lock = 0
    /\ rl_pc = [t \in Threads |-> "idle"]
    /\ rl_now = [t \in Threads |-> 0]
    /\ rl_wake = [t \in Threads |-> 0]
    /\ rl_calls = 0
    /\ permits = <<>>

ParkLimiter ==
    /\ rl_rate = 0
    /\ clock = 0
    /\ last_request_time = 0
    /\ lock = 0
    /\ rl_pc = [t \in Threads |-> "off"]
    /\ rl_now = [t \in Threads |-> 0]
    /\ rl_wake = [t \in Threads |-> 0]
    /\ rl_calls = 0
    /\ permits = <<>>

\* Time passes (any thread may be descheduled for any time).
Tick ==
    /\ \E t \in Threads : rl_pc[t] # "off"
    /\ clock < MaxTime
    /\ clock' = clock + 1
    /\ UNCHANGED <<rl_rate, last_request_time, lock, rl_pc, rl_now, rl_wake,
                   rl_calls, permits, notLimiter>>

\* A thread calls wait() and blocks on `with self._lock`.
WaitCall(t) ==
    /\ rl_pc[t] = "idle"
    /\ rl_calls < MaxCalls
    /\ rl_calls' = rl_calls + 1
    /\ rl_pc' = [rl_pc EXCEPT ![t] = "blocked"]
    /\ UNCHANGED <<rl_rate, clock, last_request_time, lock, rl_now, rl_wake, permits, notLimiter>>

\* with self._lock: (acquire)
WaitAcquire(t) ==
    /\ rl_pc[t] = "blocked"
    /\ lock = 0
    /\ lock' = t
    /\ rl_pc' = [rl_pc EXCEPT ![t] = "locked"]
    /\ UNCHANGED <<rl_rate, clock, last_request_time, rl_now, rl_wake, rl_calls, permits, notLimiter>>

\* now = time.monotonic()
WaitReadNow(t) ==
    /\ rl_pc[t] = "locked"
    /\ rl_now' = [rl_now EXCEPT ![t] = clock]
    /\ rl_pc' = [rl_pc EXCEPT ![t] = "read"]
    /\ UNCHANGED <<rl_rate, clock, last_request_time, lock, rl_wake, rl_calls, permits, notLimiter>>

\* elapsed = now - last; if elapsed < min_interval: time.sleep(min_interval - elapsed)
WaitCheck(t) ==
    /\ rl_pc[t] = "read"
    /\ LET elapsed == rl_now[t] - last_request_time
           min_interval == MinInterval(rl_rate)
       IN IF elapsed < min_interval
          THEN /\ rl_wake' = [rl_wake EXCEPT ![t] = clock + SleepDuration(min_interval, elapsed)]
               /\ rl_pc' = [rl_pc EXCEPT ![t] = "sleeping"]
          ELSE /\ rl_pc' = [rl_pc EXCEPT ![t] = "stamp"]
               /\ UNCHANGED rl_wake
    /\ UNCHANGED <<rl_rate, clock, last_request_time, lock, rl_now, rl_calls, permits, notLimiter>>

\* time.sleep returns, never before the requested duration has passed
WaitWake(t) ==
    /\ rl_pc[t] = "sleeping"
    /\ clock >= rl_wake[t]
    /\ rl_pc' = [rl_pc EXCEPT ![t] = "stamp"]
    /\ UNCHANGED <<rl_rate, clock, last_request_time, lock, rl_now, rl_wake, rl_calls, permits, notLimiter>>

\* self._last_request_time = time.monotonic(): the call is permitted
WaitStamp(t) ==
    /\ rl_pc[t] = "stamp"
    /\ last_request_time' = StampTime(t)
    /\ permits' = Append(permits, StampTime(t))
    /\ rl_pc' = [rl_pc EXCEPT ![t] = "stamped"]
    /\ UNCHANGED <<rl_rate, clock, lock, rl_now, rl_wake, rl_calls, notLimiter>>

\* A plausible slip: acquire() with no release() on the way out.
WaitReleaseNever(t) ==
    /\ rl_pc[t] = "stamped"
    /\ rl_pc' = [rl_pc EXCEPT ![t] = "idle"]
    /\ UNCHANGED <<rl_rate, clock, last_request_time, lock, rl_now, rl_wake, rl_calls,
                   permits, notLimiter>>
\* leaving the with block releases the lock; wait() returns
WaitRelease(t) ==
    /\ rl_pc[t] = "stamped"
    /\ lock' = 0
    /\ rl_pc' = [rl_pc EXCEPT ![t] = "idle"]
    /\ UNCHANGED <<rl_rate, clock, last_request_time, rl_now, rl_wake, rl_calls, permits, notLimiter>>

NextLimiter ==
    \/ Tick
    \/ \E t \in Threads : WaitCall(t)
    \/ \E t \in Threads : WaitAcquire(t)
    \/ \E t \in Threads : WaitReadNow(t)
    \/ \E t \in Threads : WaitCheck(t)
    \/ \E t \in Threads : WaitWake(t)
    \/ \E t \in Threads : WaitStamp(t)
    \/ \E t \in Threads : WaitRelease(t)

\* a reading of the clock one tick nearer to the origin of time
Earlier(time) == IF time > 0 THEN time - 1 ELSE 0

\* Time passes for as long as the run lasts. Readings stay within 0..MaxTime:
\* once the clock shows MaxTime the origin of time moves on by one tick
\* instead. That keeps what wait() computes from the readings: a wake-up time
\* at the origin has passed, a last request at the origin is at least
\* MaxTime old, and the elapsed time of a caller that has read `now` is kept
\* up to min_interval, beyond which wait() does not look at it.
TickOn ==
    /\ \E t \in Threads : rl_pc[t] # "off"
    /\ IF clock < MaxTime
       THEN /\ clock' = clock + 1
            /\ UNCHANGED <<last_request_time, rl_now, rl_wake, permits>>
       ELSE /\ UNCHANGED clock
            /\ last_request_time' = Earlier(last_request_time)
            /\ rl_wake' = [t \in Threads |-> Earlier(rl_wake[t])]
            /\ rl_now' = [t \in Threads |->
                            IF rl_now[t] >= last_request_time
                            THEN Earlier(last_request_time)
                                 + Min(rl_now[t] - last_request_time,
                                       MinInterval(rl_rate))
                            ELSE Earlier(rl_now[t])]
            /\ permits' = [k \in 1..Len(permits) |-> Earlier(permits[k])]
    /\ UNCHANGED <<rl_rate, lock, rl_pc, rl_calls, notLimiter>>

\* the steps of caller t inside wait()
WaitStep(t) ==
    \/ WaitReadNow(t)
    \/ WaitCheck(t)
    \/ WaitWake(t)
    \/ WaitStamp(t)
    \/ WaitRelease(t)

\* wait() with callers that keep running and a clock that keeps going
NextLimiterOn ==
    \/ TickOn
    \/ \E t \in Threads : WaitCall(t)
    \/ \E t \in Threads : WaitAcquire(t)
    \/ \E t \in Threads : WaitStep(t)


\* ------------------------------------------------------------------------
\* Retry policy: with_retry wrapped around one page fetch
\* ------------------------------------------------------------------------

\* with_retry(max_attempts: int = 5, ...)
DefaultMaxAttempts == 5
\* @with_retry(max_attempts=3) on GooglePatentsScraper._fetch_search_page
GoogleMaxAttempts == 3
\* with_retry(..., min_wait: float = 1, max_wait: float = 60)
MinWait == 1
MaxWait == 60

RetriedAdapters == {"uspto", "google_patents"}

\* The page fetches that no with_retry wraps: Entrez.esearch and Entrez.efetch
\* (pubmed), GoogleSearch(params).get_dict() (the structured-API strategy of
\* google_patents) and client.published_data_search (epo).
UnwrappedFetches == {"pubmed", "google_serpapi", "epo"}

FetchPaths == RetriedAdapters \cup UnwrappedFetches

\* @with_retry() on USPTOScraper._fetch_page, @with_retry(max_attempts=3) on
\* GooglePatentsScraper._fetch_search_page
MaxAttempts(adapter) ==
    IF adapter = "uspto" THEN DefaultMaxAttempts ELSE GoogleMaxAttempts

\* How one invocation of the wrapped function can end.
\*   _fetch_page: post raises ConnectionError/Timeout, raise_for_status raises
\*   HTTPError, resp.json() raises JSONDecodeError, else the parsed body ("ok").
\*   _fetch_search_page: get raises ConnectionError/Timeout/TooManyRedirects,
\*   a status other than 200 returns None, else the text ("ok").
AttemptOutcomes(adapter) ==
    IF adapter = "uspto"
    THEN {"ok", "ConnectionError", "Timeout", "HTTPError", "JSONDecodeError"}
    ELSE IF adapter \in UnwrappedFetches
    THEN {"ok", "ConnectionError", "Timeout", "HTTPError"}
    ELSE {"ok", "None", "ConnectionError", "Timeout", "TooManyRedirects"}

IsException(outcome) == outcome \notin {"ok", "None"}

\* A plausible slip: retrying on any exception.
RetryIfAnyException(exc) == TRUE
\* retry=retry_if_exception_type((ConnectionError, Timeout, HTTPError))
RetryIfExceptionType(exc) == exc \in {"ConnectionError", "Timeout", "HTTPError"}

\* A plausible slip: an off-by-one attempt ceiling.
StopAfterAttemptOffByOne(attempt, max_attempts) == attempt > max_attempts
\* stop=stop_after_attempt(max_attempts)
StopAfterAttempt(attempt, max_attempts) == attempt >= max_attempts

RECURSIVE Pow2(_)
Pow2(n) == IF n <= 0 THEN 1 ELSE 2 * Pow2(n - 1)

\* wait=wait_exponential(multiplier=min_wait, max=max_wait)
WaitExponential(attempt) == Min(MinWait * Pow2(attempt - 1), MaxWait)

\* A plausible slip: the limiter called once, outside the retried function.
FetchPreludeFirstOnly(attempt) == IF attempt = 1 THEN <<"wait">> ELSE <<>>
\* self._rate_limiter.wait() is the first statement of the retried function
FetchPrelude(attempt) == <<"wait">>

InitRetry ==
    /\ rt_adapter \in FetchPaths
    /\ rt_pc = "call"
    /\ rt_attempt = 1
    /\ rt_invocations = 0
    /\ rt_events = <<>>
    /\ rt_outcomes = <<>>
    /\ rt_backoffs = <<>>
    /\ rt_result = None

ParkRetry ==
    /\ rt_adapter = None
    /\ rt_pc = "off"
    /\ rt_attempt = 0
    /\ rt_invocations = 0
    /\ rt_events = <<>>
    /\ rt_outcomes = <<>>
    /\ rt_backoffs = <<>>
    /\ rt_result = None

\* tenacity invokes the wrapped function; it first waits on the rate limiter
FetchWait ==
    /\ rt_pc = "call"
    /\ rt_adapter \in RetriedAdapters
    /\ rt_invocations' = rt_invocations + 1
    /\ rt_events' = rt_events \o FetchPrelude(rt_attempt)
    /\ rt_pc' = "request"
    /\ UNCHANGED <<rt_adapter, rt_attempt, rt_outcomes, rt_backoffs, rt_result, notRetry>>

\* the HTTP request of this invocation, its outcome, and tenacity's decision
FetchRequest(outcome) ==
    /\ rt_pc = "request"
    /\ outcome \in AttemptOutcomes(rt_adapter)
    /\ rt_events' = Append(rt_events, "request")
    /\ rt_outcomes' = Append(rt_outcomes, outcome)
    /\ IF ~IsException(outcome)
       THEN rt_pc' = "returned" /\ rt_result' = outcome
       ELSE IF ~RetryIfExceptionType(outcome)
       THEN rt_pc' = "raised" /\ rt_result' = outcome
       ELSE IF StopAfterAttempt(rt_attempt, MaxAttempts(rt_adapter))
       THEN rt_pc' = "raised" /\ rt_result' = outcome
       ELSE rt_pc' = "backoff" /\ UNCHANGED rt_result
    /\ UNCHANGED <<rt_adapter, rt_attempt, rt_invocations, rt_backoffs, notRetry>>

\* tenacity sleeps the exponential backoff, then starts the next attempt
RetryBackoff ==
    /\ rt_pc = "backoff"
    /\ rt_backoffs' = Append(rt_backoffs, WaitExponential(rt_attempt))
    /\ rt_attempt' = rt_attempt + 1
    /\ rt_pc' = "call"
    /\ UNCHANGED <<rt_adapter, rt_invocations, rt_events, rt_outcomes, rt_result, notRetry>>

\* self._rate_limiter.wait() right before Entrez.esearch, Entrez.efetch and
\* GoogleSearch(params); EPOScraper has no RateLimiter, its client is built
\* with the epo_ops Throttler middleware instead
UnwrappedPrelude(adapter) == IF adapter = "epo" THEN <<>> ELSE <<"wait">>

\* A page fetch that no with_retry wraps: the limiter's wait where the
\* adapter has one (pubmed.py, _search_serpapi), then the one upstream call.
\* Its exception leaves search, except in epo, whose loop catches it, logs
\* it and breaks.
FetchUnwrapped(outcome) ==
    /\ rt_pc = "call"
    /\ rt_adapter \in UnwrappedFetches
    /\ outcome \in AttemptOutcomes(rt_adapter)
    /\ rt_invocations' = rt_invocations + 1
    /\ rt_events' = rt_events \o UnwrappedPrelude(rt_adapter) \o <<"request">>
    /\ rt_outcomes' = Append(rt_outcomes, outcome)
    /\ rt_result' = outcome
    /\ rt_pc' = IF ~IsException(outcome) THEN "returned"
                ELSE IF rt_adapter = "epo" THEN "gave_up" ELSE "raised"
    /\ UNCHANGED <<rt_adapter, rt_attempt, rt_backoffs, notRetry>>

NextRetry ==
    \/ FetchWait
    \/ \E outcome \in AttemptOutcomes(rt_adapter) : FetchRequest(outcome)
    \/ RetryBackoff
    \/ \E outcome \in AttemptOutcomes(rt_adapter) : FetchUnwrapped(outcome)


\* ------------------------------------------------------------------------
\* Adapters: search and its pagination loop
\* ------------------------------------------------------------------------

\* SCRAPER_REGISTRY, in insertion order
SCRAPER_REGISTRY == <<"pubmed", "google_patents", "uspto", "epo">>

RegisteredNames == {SCRAPER_REGISTRY[i] : i \in 1..Len(SCRAPER_REGISTRY)}

\* A plausible slip: two registry entries with their classes exchanged.
RegistryTypeSwapped(key) ==
    CASE key = "pubmed" -> "PubMedScraper"
      [] key = "google_patents" -> "GooglePatentsScraper"
      [] key = "uspto" -> "EPOScraper"
      [] key = "epo" -> "USPTOScraper"
\* SCRAPER_REGISTRY[key]: the class registered under the key
RegistryType(key) ==
    CASE key = "pubmed" -> "PubMedScraper"
      [] key = "google_patents" -> "GooglePatentsScraper"
      [] key = "uspto" -> "USPTOScraper"
      [] key = "epo" -> "EPOScraper"

\* the name property of each scraper class
ScraperName(type) ==
    CASE type = "PubMedScraper" -> <<"pubmed">>
      [] type = "GooglePatentsScraper" -> <<"google_patents">>
      [] type = "USPTOScraper" -> <<"uspto">>
      [] type = "EPOScraper" -> <<"epo">>

\* the SourceType value each class passes as source= when it builds a
\* ScientificDocument
DocumentSource(type) ==
    CASE type = "PubMedScraper" -> "pubmed"
      [] type = "GooglePatentsScraper" -> "google_patents"
      [] type = "USPTOScraper" -> "uspto"
      [] type = "EPOScraper" -> "epo"

\* Request parameters are optional: <<>> when the key is not set, <<v>> when
\* it is set to v.
Absent == <<>>
Present(v) == <<v>>
Optional(v) == IF v = None THEN Absent ELSE Present(v)

\* An upstream record is modelled by its title: "" (empty or absent) or "t".
Titles == {"", "t"}

\* _patent_to_document, _serpapi_result_to_document, _html_result_to_document,
\* _element_to_document, _record_to_document: None (here <<>>) without a
\* title, else a document of the adapter's source (here <<doc>>); n is the
\* record's place in the stream of received records.
RecordToDocument(adapter, title, n) ==
    IF title = "" THEN <<>> ELSE <<[source |-> adapter, n |-> n]>>

\* The documents mapped from one page, in page order (records mapping to None
\* are skipped); base is the number of records received before the page.
RECURSIVE PageDocuments(_, _, _)
PageDocuments(adapter, page, base) ==
    IF page = <<>> THEN <<>>
    ELSE RecordToDocument(adapter, Head(page), base + 1)
         \o PageDocuments(adapter, Tail(page), base + 1)

\* for ...: documents.append(doc); if len(documents) >= max_results: break
RECURSIVE AppendUntilFull(_, _, _)
AppendUntilFull(documents, docs, max_results) ==
    IF docs = <<>> THEN documents
    ELSE LET appended == Append(documents, Head(docs))
         IN IF Len(appended) >= max_results THEN appended
            ELSE AppendUntilFull(appended, Tail(docs), max_results)

\* A plausible slip: returning the list without the slice.
SliceNone(documents, max_results) == documents
\* documents[:max_results]
Slice(documents, max_results) ==
    IF max_results >= 0
    THEN SubSeq(documents, 1, Min(Len(documents), max_results))
    ELSE SubSeq(documents, 1, Len(documents) + max_results)

\* Pages the upstream may send: any titles, any length within the budget.
Pages(budget) == UNION {[1..n -> Titles] : n \in 0..budget}

Budget == MaxReceived - Len(se_received)

Dates == {None, "2020-01-01"}

\* The credentials an adapter reads from the settings: a key (serpapi_key,
\* epo_key) and, for epo only, a secret (epo_secret); each set or not.
Credentials(adapter) ==
    {[key |-> k, secret |-> x] : k \in BOOLEAN,
                                 x \in IF adapter = "epo" THEN BOOLEAN ELSE {FALSE}}

\* A plausible slip: creating the client when either credential is set.
HasClientEither(cred) == cred.key \/ cred.secret
\* EPOScraper.__init__: the client exists only if
\* settings.epo_key and settings.epo_secret
HasClient(cred) == cred.key /\ cred.secret

\* search() before its locals are assigned
NoLocals == [locals |-> "unassigned"]

InitSearch ==
    /\ se_adapter \in RegisteredNames
    /\ se_cred \in Credentials(se_adapter)
    /\ se_args \in [max_results : 0..MaxResults, date_from : Dates, date_to : Dates]
    /\ se_pc = "start"
    /\ se_loc = NoLocals
    /\ se_documents = <<>>
    /\ se_received = <<>>
    /\ se_requests = <<>>
    /\ se_last = None
    /\ se_pages = <<>>
    /\ se_result = <<>>

ParkSearch ==
    /\ se_adapter = None
    /\ se_cred = [key |-> FALSE, secret |-> FALSE]
    /\ se_args = None
    /\ se_pc = "off"
    /\ se_loc = NoLocals
    /\ se_documents = <<>>
    /\ se_received = <<>>
    /\ se_requests = <<>>
    /\ se_last = None
    /\ se_pages = <<>>
    /\ se_result = <<>>

\* what one page fetch received: the kind of response and its records
Received(kind, records) == [kind |-> kind, records |-> records]

\* search returns `result`
Return(result) ==
    /\ se_pc' = "done"
    /\ se_result' = result

\* an exception leaves search
Raise(exc) ==
    /\ se_pc' = "raised"
    /\ se_result' = <<exc>>


MaxOf(args) == args.max_results

\* The histories (se_requests, se_pages, se_received) keep the first
\* MaxFetches iterations of a loop; an iteration past them runs the same
\* code with `on` false and leaves the histories as they are.
Record(history, entries, on) == IF on THEN history \o entries ELSE history

\* ---- national registry (uspto.py)

\* A plausible slip: a request body that never carries the cursor.
USPTOBuildQueryNoCursor(size, date_from, date_to, cursor) ==
    [size |-> size, after |-> Absent,
     gte |-> Optional(date_from), lte |-> Optional(date_to)]
\* USPTOScraper._build_query: page size, optional cursor, optional date filter
USPTOBuildQuery(size, date_from, date_to, cursor) ==
    [size |-> size,
     after |-> IF cursor # 0 THEN Present(cursor) ELSE Absent,
     gte |-> Optional(date_from),
     lte |-> Optional(date_to)]

\* What _fetch_page can give: an exception once the retries are exhausted
\* ("transient_error"), a body that is not JSON ("malformed"), a body without
\* a "patents" key ("no_patents"), or patents with an optional next cursor
\* (0 when there is none, else a fresh token).
USPTOResponses ==
    {[kind |-> k] : k \in {"transient_error", "malformed", "no_patents"}}
    \cup {[kind |-> "ok", patents |-> pg, cursor |-> c] :
            pg \in Pages(Budget), c \in {0, Len(se_requests) + 1}}

\* what one _fetch_page call received: the kind of response, its patents
\* and its next cursor (0 when it has none)
USPTOReceived(resp) ==
    [kind |-> resp.kind,
     records |-> IF resp.kind = "ok" THEN resp.patents ELSE <<>>,
     cursor |-> IF resp.kind = "ok" THEN resp.cursor ELSE 0]

\* search(): documents = [], cursor = None, fetched = 0, first loop test
USPTOSearchCall ==
    /\ se_pc = "start" /\ se_adapter = "uspto"
    /\ se_loc' = [cursor |-> 0, fetched |-> 0]
    /\ IF 0 < MaxOf(se_args)
       THEN se_pc' = "loop" /\ UNCHANGED se_result
       ELSE Return(se_documents)
    /\ UNCHANGED <<se_adapter, se_cred, se_args, se_documents, se_received,
                   se_requests, se_last, se_pages, notSearch>>

\* the body of `while fetched < max_results`
USPTOIteration(resp, on) ==
    /\ LET max_results == MaxOf(se_args)
           batch_size == Min(USPTO_PAGE_SIZE, max_results - se_loc.fetched)
           query_body == USPTOBuildQuery(batch_size, se_args.date_from,
                                         se_args.date_to, se_loc.cursor)
       IN /\ se_requests' = Record(se_requests, <<query_body>>, on)
          /\ se_last' = resp.kind
          /\ se_pages' = Record(se_pages, <<USPTOReceived(resp)>>, on)
          /\ CASE resp.kind = "transient_error" ->
                    /\ Raise("ConnectionError")
                    /\ UNCHANGED <<se_loc, se_documents, se_received>>
               [] resp.kind = "malformed" ->
                    /\ Raise("JSONDecodeError")
                    /\ UNCHANGED <<se_loc, se_documents, se_received>>
               [] resp.kind = "no_patents" ->
                    /\ Return(se_documents)
                    /\ UNCHANGED <<se_loc, se_documents, se_received>>
               [] resp.kind = "ok" ->
                    IF resp.patents = <<>>
                    THEN /\ Return(se_documents)
                         /\ UNCHANGED <<se_loc, se_documents, se_received>>
                    ELSE LET docs == PageDocuments("uspto", resp.patents, Len(se_received))
                             documents == AppendUntilFull(se_documents, docs, max_results)
                         IN /\ se_documents' = documents
                            /\ se_received' = Record(se_received, resp.patents, on)
                            /\ se_loc' = [cursor |-> resp.cursor, fetched |-> Len(documents)]
                            /\ IF resp.cursor = 0 \/ ~(Len(documents) < max_results)
                               THEN Return(documents)
                               ELSE se_pc' = "loop" /\ UNCHANGED se_result
    /\ UNCHANGED <<se_adapter, se_cred, se_args, notSearch>>

\* one iteration of `while fetched < max_results`
USPTOFetch(resp) ==
    /\ se_pc = "loop" /\ se_adapter = "uspto"
    /\ Len(se_requests) < MaxFetches
    /\ USPTOIteration(resp, TRUE)

\* What _fetch_page can give past the recorded iterations: as before, with
\* pages of at most one record and one of two further cursor tokens.
USPTOLaterResponses ==
    {[kind |-> k] : k \in {"transient_error", "malformed", "no_patents"}}
    \cup {[kind |-> "ok", patents |-> pg, cursor |-> c] :
            pg \in Pages(1),
            c \in {0, MaxFetches + 1, MaxFetches + 2}}

\* an iteration of `while fetched < max_results` past the recorded ones; the
\* next cursor differs from the one just sent
USPTOFetchLater(resp) ==
    /\ se_pc = "loop" /\ se_adapter = "uspto"
    /\ Len(se_requests) >= MaxFetches
    /\ resp.kind = "ok" => resp.cursor # se_loc.cursor
    /\ USPTOIteration(resp, FALSE)

\* ---- web aggregator (google_patents.py)

\* _search_serpapi: params of one structured-API call
SerpapiParams(page, date_from, date_to) ==
    [engine |-> "google_patents", page |-> page,
     before |-> IF date_from # None
                THEN Present(IF date_to # None THEN date_to ELSE "")
                ELSE Absent,
     after |-> IF date_from # None THEN Present(date_from) ELSE Absent]

\* _fetch_search_page: params of one HTML page fetch
HttpParams(page, date_from, date_to) ==
    [url |-> "https://patents.google.com/", page |-> page,
     after |-> IF date_from # None THEN Present(<<"priority:", date_from>>) ELSE Absent,
     before |-> IF date_to # None THEN Present(<<"priority:", date_to>>) ELSE Absent]

\* A plausible slip: the HTML fallback whatever the credential.
StrategyHttpOnly(cred) == "http"
\* search(): the strategy is chosen by the API credential
Strategy(cred) == IF cred.key THEN "serpapi" ELSE "http"

\* GoogleSearch(params).get_dict(): an exception, or a page of organic results
SerpapiResponses ==
    {[kind |-> "transient_error"]}
    \cup {[kind |-> "ok", results |-> pg] : pg \in Pages(Budget)}

\* _fetch_search_page: an exception once the retries are exhausted, an
\* exception that is not retried, a status other than 200 (None), or markup
\* holding zero or more result blocks
HttpResponses ==
    {[kind |-> k] : k \in {"transient_error", "other_error", "non200"}}
    \cup {[kind |-> "ok", results |-> pg] : pg \in Pages(Budget)}

\* search() up to the first loop test; `installed` is whether the serpapi
\* package imports
GoogleSearchCall(installed) ==
    /\ se_pc = "start" /\ se_adapter = "google_patents"
    /\ se_loc' = [strategy |-> Strategy(se_cred), page |-> 0]
    /\ IF Strategy(se_cred) = "serpapi" /\ ~installed
       THEN Return(<<>>)
       ELSE IF Len(se_documents) < MaxOf(se_args)
       THEN se_pc' = "loop" /\ UNCHANGED se_result
       ELSE Return(Slice(se_documents, MaxOf(se_args)))
    /\ UNCHANGED <<se_adapter, se_cred, se_args, se_documents, se_received,
                   se_requests, se_last, se_pages, notSearch>>

\* page += 1; page numbers past MaxFetches are told apart by parity only,
\* which keeps the counter finite
NextPage(page) == IF page <= MaxFetches THEN page + 1 ELSE MaxFetches

\* the part of one iteration shared by both strategies, after the page is in
GooglePage(results, on) ==
    LET max_results == MaxOf(se_args)
    IN IF results = <<>>
       THEN /\ Return(Slice(se_documents, max_results))
            /\ UNCHANGED <<se_loc, se_documents, se_received>>
       ELSE LET docs == PageDocuments("google_patents", results, Len(se_received))
                documents == AppendUntilFull(se_documents, docs, max_results)
            IN /\ se_documents' = documents
               /\ se_received' = Record(se_received, results, on)
               /\ se_loc' = [se_loc EXCEPT !.page = NextPage(@)]
               /\ IF Len(documents) < max_results
                  THEN se_pc' = "loop" /\ UNCHANGED se_result
                  ELSE Return(Slice(documents, max_results))

\* the body of `while len(documents) < max_results` in _search_serpapi
SerpapiIteration(resp, on) ==
    /\ se_requests' = Record(se_requests,
            <<SerpapiParams(se_loc.page, se_args.date_from, se_args.date_to)>>, on)
    /\ se_last' = resp.kind
    /\ se_pages' = Record(se_pages,
          <<Received(resp.kind, IF resp.kind = "ok" THEN resp.results ELSE <<>>)>>, on)
    /\ CASE resp.kind = "transient_error" ->
              /\ Raise("ConnectionError")
              /\ UNCHANGED <<se_loc, se_documents, se_received>>
         [] resp.kind = "ok" -> GooglePage(resp.results, on)
    /\ UNCHANGED <<se_adapter, se_cred, se_args, notSearch>>

\* one iteration of `while len(documents) < max_results` in _search_serpapi
SerpapiFetch(resp) ==
    /\ se_pc = "loop" /\ se_adapter = "google_patents"
    /\ se_loc.strategy = "serpapi"
    /\ Len(se_requests) < MaxFetches
    /\ SerpapiIteration(resp, TRUE)

\* GoogleSearch(params).get_dict() past the recorded iterations: pages of at
\* most one result
SerpapiLaterResponses ==
    {[kind |-> "transient_error"]}
    \cup {[kind |-> "ok", results |-> pg] : pg \in Pages(1)}

\* an iteration of the _search_serpapi loop past the recorded ones
SerpapiFetchLater(resp) ==
    /\ se_pc = "loop" /\ se_adapter = "google_patents"
    /\ se_loc.strategy = "serpapi"
    /\ Len(se_requests) >= MaxFetches
    /\ SerpapiIteration(resp, FALSE)

\* the body of `while len(documents) < max_results` in _search_http
HttpIteration(resp, on) ==
    /\ se_requests' = Record(se_requests,
            <<HttpParams(se_loc.page, se_args.date_from, se_args.date_to)>>, on)
    /\ se_last' = resp.kind
    /\ se_pages' = Record(se_pages,
          <<Received(resp.kind, IF resp.kind = "ok" THEN resp.results ELSE <<>>)>>, on)
    /\ CASE resp.kind = "transient_error" ->
              /\ Raise("ConnectionError")
              /\ UNCHANGED <<se_loc, se_documents, se_received>>
         [] resp.kind = "other_error" ->
              /\ Raise("TooManyRedirects")
              /\ UNCHANGED <<se_loc, se_documents, se_received>>
         [] resp.kind = "non200" ->
              /\ Return(Slice(se_documents, MaxOf(se_args)))
              /\ UNCHANGED <<se_loc, se_documents, se_received>>
         [] resp.kind = "ok" -> GooglePage(resp.results, on)
    /\ UNCHANGED <<se_adapter, se_cred, se_args, notSearch>>

\* one iteration of `while len(documents) < max_results` in _search_http
HttpFetch(resp) ==
    /\ se_pc = "loop" /\ se_adapter = "google_patents"
    /\ se_loc.strategy = "http"
    /\ Len(se_requests) < MaxFetches
    /\ HttpIteration(resp, TRUE)

\* _fetch_search_page past the recorded iterations: pages of at most one
\* result block
HttpLaterResponses ==
    {[kind |-> k] : k \in {"transient_error", "other_error", "non200"}}
    \cup {[kind |-> "ok", results |-> pg] : pg \in Pages(1)}

\* an iteration of the _search_http loop past the recorded ones
HttpFetchLater(resp) ==
    /\ se_pc = "loop" /\ se_adapter = "google_patents"
    /\ se_loc.strategy = "http"
    /\ Len(se_requests) >= MaxFetches
    /\ HttpIteration(resp, FALSE)

\* ---- international registry (epo.py)

\* the CQL date bounds and the range of one published_data_search call
EPORequest(range_begin, range_end, date_from, date_to) ==
    [range_begin |-> range_begin, range_end |-> range_end,
     pd_gte |-> Optional(date_from), pd_lte |-> Optional(date_to)]

\* published_data_search: an exception, a status other than 200, content that
\* is not XML, or exchange-documents
EPOResponses ==
    {[kind |-> k] : k \in {"transient_error", "non200", "malformed"}}
    \cup {[kind |-> "ok", results |-> pg] : pg \in Pages(Budget)}

\* A plausible slip: a range end that is not capped by max_results.
RangeEndUncapped(range_begin, max_results) == range_begin + EPO_PAGE_SIZE - 1
\* range_end = min(range_begin + PAGE_SIZE - 1, max_results)
RangeEnd(range_begin, max_results) == Min(range_begin + EPO_PAGE_SIZE - 1, max_results)

\* A plausible slip: the failure of a page leaving search as an exception,
\* as it does in the other adapters.
EPOBreakRaises(documents, max_results) == Raise("ConnectionError")
\* except Exception: break / status_code != 200: break / no batch_docs from
\* content that is not XML: break; then documents[:max_results] is returned
EPOBreak(documents, max_results) == Return(Slice(documents, max_results))

\* search() up to the first loop test; without a client it returns at once
EPOSearchCall ==
    /\ se_pc = "start" /\ se_adapter = "epo"
    /\ se_loc' = [range_begin |-> 1]
    /\ IF ~HasClient(se_cred)
       THEN Return(<<>>)
       ELSE IF Len(se_documents) < MaxOf(se_args)
       THEN se_pc' = "loop" /\ UNCHANGED se_result
       ELSE Return(Slice(se_documents, MaxOf(se_args)))
    /\ UNCHANGED <<se_adapter, se_cred, se_args, se_documents, se_received,
                   se_requests, se_last, se_pages, notSearch>>

\* one iteration of `while len(documents) < max_results`
EPOFetch(resp) ==
    /\ se_pc = "loop" /\ se_adapter = "epo"
    /\ Len(se_requests) < MaxFetches
    /\ LET max_results == MaxOf(se_args)
           range_begin == se_loc.range_begin
           range_end == RangeEnd(range_begin, max_results)
       IN /\ se_requests' = Append(se_requests,
                EPORequest(range_begin, range_end, se_args.date_from, se_args.date_to))
          /\ se_last' = resp.kind
          /\ se_pages' = Append(se_pages,
                Received(resp.kind, IF resp.kind = "ok" THEN resp.results ELSE <<>>))
          /\ IF resp.kind # "ok"
             THEN /\ EPOBreak(se_documents, max_results)
                  /\ UNCHANGED <<se_loc, se_documents, se_received>>
             ELSE LET batch_docs == PageDocuments("epo", resp.results, Len(se_received))
                      documents == se_documents \o batch_docs
                  IN /\ se_received' = se_received \o resp.results
                     /\ IF batch_docs = <<>>
                        THEN /\ Return(Slice(se_documents, max_results))
                             /\ UNCHANGED <<se_loc, se_documents>>
                        ELSE /\ se_documents' = documents
                             /\ se_loc' = [range_begin |-> range_end + 1]
                             /\ IF Len(batch_docs) < EPO_PAGE_SIZE
                                   \/ ~(Len(documents) < max_results)
                                THEN Return(Slice(documents, max_results))
                                ELSE se_pc' = "loop" /\ UNCHANGED se_result
    /\ UNCHANGED <<se_adapter, se_cred, se_args, notSearch>>

\* ---- literature index (pubmed.py)

\* Largest total count the history-backed search reports.
MaxCount == MaxResults + 1

\* the continuation handles esearch may return
Handles == {[webenv |-> "E1", query_key |-> "1"], [webenv |-> "E2", query_key |-> "2"]}

\* Entrez.esearch(**search_kwargs)
ESearchRequest(date_from, date_to) ==
    [call |-> "esearch", retmax |-> 0, usehistory |-> "y",
     mindate |-> Optional(date_from), maxdate |-> Optional(date_to),
     datetype |-> IF date_from # None \/ date_to # None THEN Present("pdat") ELSE Absent]

\* Entrez.efetch(retstart=start, retmax=batch_size, webenv=..., query_key=...)
EFetchRequest(start, batch_size, web_env, query_key) ==
    [call |-> "efetch", retstart |-> start, retmax |-> batch_size,
     webenv |-> web_env, query_key |-> query_key]

\* esearch: an exception ("search_error"), or a count and a handle
ESearchResponses ==
    {[kind |-> "search_error"]}
    \cup {[kind |-> "ok", count |-> c, handle |-> h] : c \in 0..MaxCount, h \in Handles}

\* efetch: an exception, or MEDLINE records (however many the upstream sends)
EFetchResponses ==
    {[kind |-> "transient_error"]}
    \cup {[kind |-> "ok", records |-> pg] : pg \in Pages(Budget)}

\* A plausible slip: asking for a whole batch every time.
BatchSizeWhole(fetch_count, start) == BATCH_SIZE
\* batch_size = min(BATCH_SIZE, fetch_count - start)
BatchSize(fetch_count, start) == Min(BATCH_SIZE, fetch_count - start)

\* search() up to the first test of `for start in range(0, fetch_count, BATCH_SIZE)`
PubMedSearchCall(resp) ==
    /\ se_pc = "start" /\ se_adapter = "pubmed"
    /\ se_requests' = Append(se_requests,
            ESearchRequest(se_args.date_from, se_args.date_to))
    /\ se_last' = resp.kind
    /\ IF resp.kind = "search_error"
       THEN /\ Raise("URLError")
            /\ UNCHANGED se_loc
       ELSE LET fetch_count == Min(resp.count, MaxOf(se_args))
            IN /\ se_loc' = [start |-> 0, total_count |-> resp.count,
                             fetch_count |-> fetch_count,
                             web_env |-> resp.handle.webenv,
                             query_key |-> resp.handle.query_key]
               /\ IF 0 < fetch_count
                  THEN se_pc' = "loop" /\ UNCHANGED se_result
                  ELSE Return(se_documents)
    /\ UNCHANGED <<se_adapter, se_cred, se_args, se_documents, se_received,
                   se_pages, notSearch>>

\* one iteration of the batch loop
PubMedFetch(resp) ==
    /\ se_pc = "loop" /\ se_adapter = "pubmed"
    /\ Len(se_requests) < MaxFetches
    /\ LET start == se_loc.start
           batch_size == BatchSize(se_loc.fetch_count, start)
       IN /\ se_requests' = Append(se_requests,
                EFetchRequest(start, batch_size, se_loc.web_env, se_loc.query_key))
          /\ se_last' = resp.kind
          /\ se_pages' = Append(se_pages,
                Received(resp.kind, IF resp.kind = "ok" THEN resp.records ELSE <<>>))
          /\ IF resp.kind = "transient_error"
             THEN /\ Raise("URLError")
                  /\ UNCHANGED <<se_loc, se_documents, se_received>>
             ELSE LET documents == se_documents
                        \o PageDocuments("pubmed", resp.records, Len(se_received))
                  IN /\ se_documents' = documents
                     /\ se_received' = se_received \o resp.records
                     /\ se_loc' = [se_loc EXCEPT !.start = start + BATCH_SIZE]
                     /\ IF start + BATCH_SIZE < se_loc.fetch_count
                        THEN se_pc' = "loop" /\ UNCHANGED se_result
                        ELSE Return(documents)
    /\ UNCHANGED <<se_adapter, se_cred, se_args, notSearch>>

NextSearch ==
    \/ USPTOSearchCall
    \/ \E resp \in USPTOResponses : USPTOFetch(resp)
    \/ \E installed \in BOOLEAN : GoogleSearchCall(installed)
    \/ \E resp \in SerpapiResponses : SerpapiFetch(resp)
    \/ \E resp \in HttpResponses : HttpFetch(resp)
    \/ EPOSearchCall
    \/ \E resp \in EPOResponses : EPOFetch(resp)
    \/ \E resp \in ESearchResponses : PubMedSearchCall(resp)
    \/ \E resp \in EFetchResponses : PubMedFetch(resp)

\* search() run for as long as it takes: the iterations past the recorded
\* ones included
NextSearchOn ==
    \/ NextSearch
    \/ \E resp \in USPTOLaterResponses : USPTOFetchLater(resp)
    \/ \E resp \in SerpapiLaterResponses : SerpapiFetchLater(resp)
    \/ \E resp \in HttpLaterResponses : HttpFetchLater(resp)

\* ------------------------------------------------------------------------
\* Orchestrator: scrape (cli.py)
\* ------------------------------------------------------------------------

\* A string is a sequence of symbols. Each registered name is one symbol, as
\* are an unregistered name ("zzz"), the literal "all", the blank and the comma.
Symbols == RegisteredNames \cup {"zzz", "all", " ", ","}

Strings(maxlen) == UNION {[1..n -> Symbols] : n \in 0..maxlen}

\* str.split(","): the pieces between the commas, empty pieces included
RECURSIVE SplitFrom(_, _)
SplitFrom(str, piece) ==
    IF str = <<>> THEN <<piece>>
    ELSE IF Head(str) = "," THEN <<piece>> \o SplitFrom(Tail(str), <<>>)
    ELSE SplitFrom(Tail(str), Append(piece, Head(str)))

Split(str) == SplitFrom(str, <<>>)

RECURSIVE LStrip(_)
LStrip(str) ==
    IF str # <<>> /\ Head(str) = " " THEN LStrip(Tail(str)) ELSE str

RECURSIVE RStrip(_)
RStrip(str) ==
    IF str # <<>> /\ str[Len(str)] = " "
    THEN RStrip(SubSeq(str, 1, Len(str) - 1)) ELSE str

\* str.strip()
Strip(str) == RStrip(LStrip(str))

\* if source == "all": list(SCRAPER_REGISTRY.keys())
\* else: [s.strip() for s in source.split(",")]
ResolveSources(source) ==
    IF source = <<"all">>
    THEN [i \in 1..Len(SCRAPER_REGISTRY) |-> <<SCRAPER_REGISTRY[i]>>]
    ELSE LET pieces == Split(source)
         IN [i \in 1..Len(pieces) |-> Strip(pieces[i])]

\* name in SCRAPER_REGISTRY
Registered(name) == Len(name) = 1 /\ name[1] \in RegisteredNames

\* A plausible slip: looking only at the first name before starting.
ValidateFirstOnly(names) == Registered(names[1])
\* for name in source_names: if name not in SCRAPER_REGISTRY: raise BadParameter
Validate(names) == \A j \in 1..Len(names) : Registered(names[j])

\* scraper.default_output_path(): settings.output_dir / f"{self.name}.jsonl"
DefaultOutputPath(name) == <<"data", name, ".jsonl">>

\* A plausible slip: ignoring --output.
OutPathDefaultOnly(output, name) == DefaultOutputPath(name)
\* Path(output) if output else scraper.default_output_path(); `if output`
\* is false for None and for the empty string
OutPath(output, name) ==
    IF output # None /\ output # "" THEN <<output>> ELSE DefaultOutputPath(name)

\* A plausible slip: writing whatever the search returned, even nothing.
NoResultsNever(documents) == FALSE
\* if not documents: ... continue
NoResults(documents) == documents = <<>>

Paths == {<<"o.jsonl">>} \cup {DefaultOutputPath(<<n>>) : n \in RegisteredNames}

\* A plausible slip: the file opened with "w", which empties it first.
AppendDocumentsTruncating(files, path, documents) ==
    [files |-> [files EXCEPT ![path] = documents], count |-> Len(documents)]
\* append_documents(path, documents): one line per document, appended;
\* returns the count written
AppendDocuments(files, path, documents) ==
    [files |-> [files EXCEPT ![path] = @ \o documents], count |-> Len(documents)]

\* scraper.search(query=query, max_results=max_results, date_from=date_from,
\*                date_to=date_to)
SearchCallArgs(args) ==
    [query |-> args.query, max_results |-> args.max_results,
     date_from |-> args.date_from, date_to |-> args.date_to]

ArgChoices ==
    {[query |-> "q", max_results |-> 1, date_from |-> None, date_to |-> None],
     [query |-> "q", max_results |-> 2, date_from |-> "2020-01-01", date_to |-> None],
     [query |-> "q", max_results |-> 2, date_from |-> None, date_to |-> "2021-12-31"]}

\* What constructing the adapter and calling its search can give the
\* orchestrator: the lookup SCRAPER_REGISTRY[name] fails for an unregistered
\* name; the searches of pubmed, google_patents and uspto may raise (see
\* Raise above), the one of epo catches its page failures; else a list of
\* documents.
Outcomes(name) ==
    IF ~Registered(name) THEN {[kind |-> "lookup_error"]}
    ELSE (IF RegistryType(name[1]) = "EPOScraper" THEN {}
          ELSE {[kind |-> "search_error"]})
         \cup {[kind |-> "ok", count |-> n] : n \in 0..MaxDocs}

\* the documents the search of a scraper of the given class returned
Documents(type, count) == [k \in 1..count |-> [source |-> DocumentSource(type), n |-> k]]

InitScrape ==
    /\ cl_source \in Strings(MaxSourceLen)
    /\ cl_args \in ArgChoices
    /\ cl_output \in {None, "", "o.jsonl"}
    /\ cl_pc = "start"
    /\ cl_names = <<>>
    /\ cl_i = 0
    /\ cl_log = <<>>
    /\ cl_failed = 0
    /\ cl_files = [p \in Paths |-> <<>>]
    /\ cl_total = 0

ParkScrape ==
    /\ cl_source = <<>>
    /\ cl_args = None
    /\ cl_output = None
    /\ cl_pc = "off"
    /\ cl_names = <<>>
    /\ cl_i = 0
    /\ cl_log = <<>>
    /\ cl_failed = 0
    /\ cl_files = <<>>
    /\ cl_total = 0

\* scrape() up to the first iteration of the main loop: resolve the source
\* list and validate every name
ScrapeResolve ==
    /\ cl_pc = "start"
    /\ LET source_names == ResolveSources(cl_source)
       IN /\ cl_names' = source_names
          /\ IF Validate(source_names)
             THEN cl_pc' = "loop" /\ cl_i' = 1
             ELSE cl_pc' = "rejected" /\ UNCHANGED cl_i
    /\ UNCHANGED <<cl_source, cl_args, cl_output, cl_log, cl_failed, cl_files,
                   cl_total, notScrape>>

\* click.echo(f"\nDone. Total: {total_docs} documents scraped."), reached
\* when the loop has run out of names
Report(next_pc, total_docs) ==
    IF next_pc = "done" THEN <<[op |-> "report", total |-> total_docs]>> ELSE <<>>

\* one iteration of `for name in source_names`, and the closing report after
\* the last one
ScrapeSource(outcome) ==
    /\ cl_pc = "loop"
    /\ LET name == cl_names[cl_i]
           construct == [op |-> "construct", i |-> cl_i, name |-> name]
           search == [op |-> "search", i |-> cl_i, name |-> name,
                      args |-> SearchCallArgs(cl_args)]
           next_pc == IF cl_i < Len(cl_names) THEN "loop" ELSE "done"
       IN /\ outcome \in Outcomes(name)
          /\ CASE outcome.kind = "lookup_error" ->
                    /\ cl_pc' = "aborted" /\ cl_failed' = cl_i
                    /\ UNCHANGED <<cl_i, cl_log, cl_files, cl_total>>
               [] outcome.kind = "search_error" ->
                    /\ cl_pc' = "aborted" /\ cl_failed' = cl_i
                    /\ cl_log' = cl_log \o <<construct, search>>
                    /\ UNCHANGED <<cl_i, cl_files, cl_total>>
               [] outcome.kind = "ok" ->
                    LET scraper == RegistryType(name[1])
                        documents == Documents(scraper, outcome.count)
                        returned == [op |-> "returned", i |-> cl_i, name |-> name,
                                     documents |-> documents]
                        out_path == OutPath(cl_output, ScraperName(scraper))
                        written == AppendDocuments(cl_files, out_path, documents)
                    IN /\ cl_pc' = next_pc
                       /\ cl_i' = IF cl_i < Len(cl_names) THEN cl_i + 1 ELSE cl_i
                       /\ UNCHANGED cl_failed
                       /\ IF NoResults(documents)
                          THEN /\ cl_log' = cl_log \o <<construct, search, returned>>
                                             \o Report(next_pc, cl_total)
                               /\ UNCHANGED <<cl_files, cl_total>>
                          ELSE /\ cl_log' = cl_log \o <<construct, search, returned,
                                      [op |-> "append", i |-> cl_i, name |-> name,
                                       path |-> out_path, count |-> written.count]>>
                                      \o Report(next_pc, cl_total + written.count)
                               /\ cl_files' = written.files
                               /\ cl_total' = cl_total + written.count
    /\ UNCHANGED <<cl_source, cl_args, cl_output, cl_names, notScrape>>

NextScrape ==
    \/ ScrapeResolve
    \/ \E outcome \in UNION {Outcomes(<<n>>) : n \in Symbols} : ScrapeSource(outcome)

\* ------------------------------------------------------------------------
\* Persistence: append_documents, read_documents, count_documents
\* (storage/jsonl.py) and the document model (models/document.py)
\* ------------------------------------------------------------------------

\* Python values. A str is a sequence of symbols; the values of the untyped
\* metadata mapping carry their Python type.
PyStr(s) == [t |-> "str", v |-> s]
PyNone == [t |-> "NoneType", v |-> <<>>]
PyList(items) == [t |-> "list", v |-> items]

\* JSON values: null, string, array (objects are records)
JNull == [j |-> "null", v |-> <<>>]
JStr(s) == [j |-> "string", v |-> s]
JArr(items) == [j |-> "array", v |-> items]

\* decimal text of the integers the dates use
TwoDigits ==
    <<"01", "02", "03", "04", "05", "06", "07", "08", "09", "10", "11", "12",
      "13", "14", "15", "16", "17", "18", "19", "20", "21", "22", "23", "24",
      "25", "26", "27", "28", "29", "30", "31">>

Years == {2023, 2024}

YearText(y) == IF y = 2023 THEN "2023" ELSE "2024"

Micros == {0, 123456}

\* date.isoformat(): YYYY-MM-DD. The variant writes the month only.
DateIsoFormatMonthOnly(d) == <<YearText(d.y), "-", TwoDigits[d.m], "-", TwoDigits[1]>>
DateIsoFormat(d) == <<YearText(d.y), "-", TwoDigits[d.m], "-", TwoDigits[d.d]>>

\* parsing a YYYY-MM-DD string into a date
DateFromIso(str) ==
    [y |-> CHOOSE y \in Years : YearText(y) = str[1],
     m |-> CHOOSE m \in 1..12 : TwoDigits[m] = str[3],
     d |-> CHOOSE d \in 1..31 : TwoDigits[d] = str[5]]

\* an aware UTC datetime as ISO 8601: the date, "T", the time, the
\* microseconds when there are any, and "Z"
DatetimeIsoFormat(ts) ==
    DateIsoFormat(ts.date) \o <<"T", TwoDigits[ts.hour], ":00:00">>
    \o (IF ts.microsecond = 0 THEN <<>> ELSE <<".", "123456">>) \o <<"Z">>

\* parsing it back: a trailing "Z" gives an aware datetime in UTC
DatetimeFromIso(str) ==
    [date |-> DateFromIso(SubSeq(str, 1, 5)),
     hour |-> CHOOSE h \in 1..23 : TwoDigits[h] = str[7],
     microsecond |-> IF str[9] = "." THEN 123456 ELSE 0,
     tz |-> IF str[Len(str)] = "Z" THEN "UTC" ELSE "naive"]

\* Optional[str] to JSON and back
DumpOptionalStr(opt) == IF opt = Absent THEN JNull ELSE JStr(opt[1])

LoadOptionalStr(json) == IF json.j = "null" THEN Absent ELSE Present(json.v)

\* list[str] to JSON and back
DumpStrList(list) == JArr([i \in 1..Len(list) |-> JStr(list[i])])

LoadStrList(json) == [i \in 1..Len(json.v) |-> json.v[i].v]

\* a value of the untyped metadata mapping to JSON and back: no type is
\* declared, so what comes back is what the JSON says
RECURSIVE DumpAny(_)
DumpAny(value) ==
    CASE value.t = "NoneType" -> JNull
      [] value.t = "str" -> JStr(value.v)
      [] value.t = "list" -> JArr([i \in 1..Len(value.v) |-> DumpAny(value.v[i])])

RECURSIVE LoadAny(_)
LoadAny(json) ==
    CASE json.j = "null" -> PyNone
      [] json.j = "string" -> PyStr(json.v)
      [] json.j = "array" -> PyList([i \in 1..Len(json.v) |-> LoadAny(json.v[i])])

\* Author and Identifier to JSON and back
DumpAuthor(a) == [name |-> JStr(a.name), affiliation |-> DumpOptionalStr(a.affiliation)]

LoadAuthor(json) == [name |-> json.name.v, affiliation |-> LoadOptionalStr(json.affiliation)]

DumpIdentifier(id) == [type |-> JStr(id.type), value |-> JStr(id.value)]

LoadIdentifier(json) == [type |-> json.type.v, value |-> json.value.v]

\* doc.model_dump_json(): every field of ScientificDocument as JSON
ModelDumpJson(doc) ==
    [source |-> JStr(<<doc.source>>),
     title |-> JStr(doc.title),
     abstract |-> DumpOptionalStr(doc.abstract),
     authors |-> JArr([i \in 1..Len(doc.authors) |-> DumpAuthor(doc.authors[i])]),
     publication_date |-> IF doc.publication_date = Absent THEN JNull
                          ELSE JStr(DateIsoFormat(doc.publication_date[1])),
     identifiers |-> JArr([i \in 1..Len(doc.identifiers) |->
                              DumpIdentifier(doc.identifiers[i])]),
     chemical_entities |-> DumpStrList(doc.chemical_entities),
     full_text_url |-> DumpOptionalStr(doc.full_text_url),
     keywords |-> DumpStrList(doc.keywords),
     journal_or_office |-> DumpOptionalStr(doc.journal_or_office),
     metadata |-> [k \in DOMAIN doc.metadata |-> DumpAny(doc.metadata[k])],
     scraped_at |-> JStr(DatetimeIsoFormat(doc.scraped_at))]

\* ScientificDocument.model_validate_json(line): each field validated
\* against its declared type
ModelValidateJson(json) ==
    [source |-> json.source.v[1],
     title |-> json.title.v,
     abstract |-> LoadOptionalStr(json.abstract),
     authors |-> [i \in 1..Len(json.authors.v) |-> LoadAuthor(json.authors.v[i])],
     publication_date |-> IF json.publication_date.j = "null" THEN Absent
                          ELSE Present(DateFromIso(json.publication_date.v)),
     identifiers |-> [i \in 1..Len(json.identifiers.v) |->
                         LoadIdentifier(json.identifiers.v[i])],
     chemical_entities |-> LoadStrList(json.chemical_entities),
     full_text_url |-> LoadOptionalStr(json.full_text_url),
     keywords |-> LoadStrList(json.keywords),
     journal_or_office |-> LoadOptionalStr(json.journal_or_office),
     metadata |-> [k \in DOMAIN json.metadata |-> LoadAny(json.metadata[k])],
     scraped_at |-> DatetimeFromIso(json.scraped_at.v)]

\* scraped_at: datetime.now(timezone.utc) at construction
Timestamps ==
    {[date |-> [y |-> 2024, m |-> 6, d |-> 15], hour |-> 12, microsecond |-> us,
      tz |-> "UTC"] : us \in Micros}

\* Documents as the adapters' record-mapping functions build them.
\* PubMedScraper._record_to_document
PubMedDocument(title, publication_date, scraped_at) ==
    [source |-> "pubmed", title |-> title, abstract |-> Absent,
     authors |-> <<[name |-> <<"Doe J">>, affiliation |-> Absent],
                   [name |-> <<"Roe R">>, affiliation |-> Absent]>>,
     publication_date |-> publication_date,
     identifiers |-> <<[type |-> <<"pmid">>, value |-> <<"1">>],
                       [type |-> <<"doi">>, value |-> <<"10.1/x">>]>>,
     chemical_entities |-> <<<<"Aspirin">>>>,
     full_text_url |-> Present(<<"https://pubmed.ncbi.nlm.nih.gov/", "1", "/">>),
     keywords |-> <<<<"drug">>, <<"compound">>>>,
     journal_or_office |-> Present(<<"J Med">>),
     metadata |-> [mesh_headings |-> PyList(<<PyStr(<<"Aspirin/pharmacology">>)>>),
                   publication_type |-> PyList(<<>>),
                   language |-> PyList(<<PyStr(<<"eng">>)>>)],
     scraped_at |-> scraped_at]

\* GooglePatentsScraper._serpapi_result_to_document
GoogleDocument(title, publication_date, scraped_at) ==
    [source |-> "google_patents", title |-> title,
     abstract |-> Present(<<"snippet">>),
     authors |-> <<[name |-> <<"Jane Doe">>, affiliation |-> Absent]>>,
     publication_date |-> publication_date,
     identifiers |-> <<[type |-> <<"patent_number">>, value |-> <<"US1">>]>>,
     chemical_entities |-> <<>>,
     full_text_url |-> Absent,
     keywords |-> <<>>,
     journal_or_office |-> Present(<<>>),
     metadata |-> [grant_date |-> PyStr(<<"2024", "-", "06", "-", "15">>),
                   thumbnail |-> PyNone],
     scraped_at |-> scraped_at]

\* USPTOScraper._patent_to_document
USPTODocument(title, publication_date, scraped_at) ==
    [source |-> "uspto", title |-> title,
     abstract |-> Present(<<"A new compound">>),
     authors |-> <<[name |-> <<"Jane Doe">>, affiliation |-> Absent],
                   [name |-> <<"John Smith">>, affiliation |-> Absent]>>,
     publication_date |-> publication_date,
     identifiers |-> <<[type |-> <<"patent_number">>, value |-> <<"12345678">>]>>,
     chemical_entities |-> <<>>,
     full_text_url |-> Present(<<"https://patents.google.com/patent/US", "12345678">>),
     keywords |-> <<>>,
     journal_or_office |-> Present(<<"USPTO">>),
     metadata |-> [cpc_codes |-> PyList(<<PyStr(<<"A61K">>)>>),
                   assignees |-> PyList(<<>>)],
     scraped_at |-> scraped_at]

\* The documents handed to append_documents.
DocChoices ==
    LET early == CHOOSE ts \in Timestamps : ts.microsecond = 0
        late == CHOOSE ts \in Timestamps : ts.microsecond # 0
    IN {PubMedDocument(<<"T1">>, Absent, early),
        PubMedDocument(<<"T2">>, Present([y |-> 2024, m |-> 1, d |-> 1]), late),
        GoogleDocument(<<"T3">>, Present([y |-> 2023, m |-> 12, d |-> 31]), late),
        USPTODocument(<<"T4">>, Present([y |-> 2024, m |-> 6, d |-> 15]), early)}

Batches == UNION {[1..n -> DocChoices] : n \in 0..MaxBatch}

\* The text of the file: a sequence of tokens, each the JSON text of one
\* record or a newline.
JsonText(json) == [tok |-> "json", v |-> json]
Newline == [tok |-> "newline", v |-> <<>>]

\* A plausible slip: opening the file for writing, which truncates it.
OpenTruncate(file) == <<>>
\* open(path, "a"): the existing text, or a new empty file
OpenAppend(file) == IF file = Absent THEN <<>> ELSE file[1]

\* for doc in documents: f.write(doc.model_dump_json() + "\n"); count += 1
RECURSIVE WriteDocuments(_, _, _)
WriteDocuments(text, documents, count) ==
    IF documents = <<>> THEN [text |-> text, count |-> count]
    ELSE WriteDocuments(text \o <<JsonText(ModelDumpJson(Head(documents))), Newline>>,
                        Tail(documents), count + 1)

\* `for line in f`: the text cut after each newline, a last unterminated
\* line included
RECURSIVE LinesFrom(_, _)
LinesFrom(text, line) ==
    IF text = <<>> THEN (IF line = <<>> THEN <<>> ELSE <<line>>)
    ELSE IF Head(text).tok = "newline"
         THEN <<Append(line, Head(text))>> \o LinesFrom(Tail(text), <<>>)
         ELSE LinesFrom(Tail(text), Append(line, Head(text)))

Lines(text) == LinesFrom(text, <<>>)

\* line.strip(): without the whitespace at both ends
StripLine(line) == SelectSeq(line, LAMBDA tok : tok.tok # "newline")

\* read_documents(path): the records of the non-blank lines, in file order
ReadDocuments(file) ==
    LET lines == Lines(file[1])
        kept == SelectSeq(lines, LAMBDA line : StripLine(line) # <<>>)
    IN [i \in 1..Len(kept) |-> ModelValidateJson(StripLine(kept[i])[1].v)]

\* count_documents(path): 0 if the path does not exist, else the number of
\* non-blank lines
CountDocuments(file) ==
    IF file = Absent THEN 0
    ELSE Len(SelectSeq(Lines(file[1]), LAMBDA line : StripLine(line) # <<>>))

InitStorage ==
    /\ st_file = Absent
    /\ st_pc = "idle"
    /\ st_calls = 0
    /\ st_appended = <<>>
    /\ st_last = [op |-> "none"]

ParkStorage ==
    /\ st_file = Absent
    /\ st_pc = "off"
    /\ st_calls = 0
    /\ st_appended = <<>>
    /\ st_last = [op |-> "none"]

\* append_documents(path, documents)
StorageAppend(documents) ==
    /\ st_pc = "idle"
    /\ st_calls < MaxAppends
    /\ LET written == WriteDocuments(OpenAppend(st_file), documents, 0)
       IN /\ st_file' = Present(written.text)
          /\ st_last' = [op |-> "append", given |-> Len(documents),
                         result |-> written.count]
    /\ st_calls' = st_calls + 1
    /\ st_appended' = st_appended \o documents
    /\ UNCHANGED <<st_pc, notStorage>>

\* count_documents(path)
StorageCount ==
    /\ st_pc = "idle"
    /\ st_last' = [op |-> "count", result |-> CountDocuments(st_file)]
    /\ UNCHANGED <<st_file, st_pc, st_calls, st_appended, notStorage>>

\* list(read_documents(path)); opening a path that does not exist raises
StorageRead ==
    /\ st_pc = "idle"
    /\ st_last' = IF st_file = Absent
                  THEN [op |-> "read", raised |-> TRUE, result |-> <<>>]
                  ELSE [op |-> "read", raised |-> FALSE,
                        result |-> ReadDocuments(st_file)]
    /\ UNCHANGED <<st_file, st_pc, st_calls, st_appended, notStorage>>

NextStorage ==
    \/ \E documents \in Batches : StorageAppend(documents)
    \/ StorageCount
    \/ StorageRead

\* ------------------------------------------------------------------------
\* PubMedScraper._parse_date (pubmed.py)
\* ------------------------------------------------------------------------

\* A date string is a sequence of symbols: runs of digits, month
\* abbreviations, other words, and the blank.
DigitRuns == {"15", "31", "2024", "40000"}

DateSymbols == DigitRuns \cup {"Feb", "Mar", "Xyz", " "}

DateStrings == UNION {[1..n -> DateSymbols] : n \in 0..MaxDateLen}

\* The largest C int, which the date constructor converts its arguments to.
\* Scaled down from 2^31 - 1 to sixteen bits; "40000" stands for a run of
\* digits beyond it, as "2147483648" is beyond the real one.
CIntMax == 2^15 - 1

RunValue(run) ==
    CASE run = "15" -> 15 [] run = "31" -> 31 [] run = "2024" -> 2024
      [] run = "40000" -> 40000

RunDigits(run) ==
    CASE run = "15" -> 2 [] run = "31" -> 2 [] run = "2024" -> 4 [] run = "40000" -> 5

RECURSIVE Pow10(_)
Pow10(n) == IF n <= 0 THEN 1 ELSE 10 * Pow10(n - 1)

\* date_str.split(): the maximal runs of non-blank symbols
RECURSIVE SplitWordsFrom(_, _)
SplitWordsFrom(str, word) ==
    IF str = <<>> THEN (IF word = <<>> THEN <<>> ELSE <<word>>)
    ELSE IF Head(str) = " "
         THEN (IF word = <<>> THEN <<>> ELSE <<word>>) \o SplitWordsFrom(Tail(str), <<>>)
         ELSE SplitWordsFrom(Tail(str), Append(word, Head(str)))

SplitWords(str) == SplitWordsFrom(str, <<>>)

\* int(word) raises ValueError unless the word is all digits
IsInt(word) == word # <<>> /\ \A i \in 1..Len(word) : word[i] \in DigitRuns

\* int(word): the decimal value; every value beyond the C int range is
\* represented by 40000
RECURSIVE IntFrom(_, _)
IntFrom(word, acc) ==
    IF word = <<>> THEN acc
    ELSE IF acc > CIntMax \/ RunDigits(Head(word)) > 4 THEN 40000
    ELSE LET value == acc * Pow10(RunDigits(Head(word))) + RunValue(Head(word))
         IN IntFrom(Tail(word), IF value > CIntMax THEN 40000 ELSE value)

IntOf(word) == IntFrom(word, 0)

\* month_map.get(word, 1)
MonthMap(word) ==
    IF Len(word) # 1 THEN 1
    ELSE CASE word[1] = "Jan" -> 1 [] word[1] = "Feb" -> 2 [] word[1] = "Mar" -> 3
           [] word[1] = "Apr" -> 4 [] word[1] = "May" -> 5 [] word[1] = "Jun" -> 6
           [] word[1] = "Jul" -> 7 [] word[1] = "Aug" -> 8 [] word[1] = "Sep" -> 9
           [] word[1] = "Oct" -> 10 [] word[1] = "Nov" -> 11 [] word[1] = "Dec" -> 12
           [] OTHER -> 1

IsLeap(year) == year % 4 = 0 /\ (year % 100 # 0 \/ year % 400 = 0)

DaysInMonth(year, month) ==
    IF month = 2 THEN (IF IsLeap(year) THEN 29 ELSE 28)
    ELSE IF month \in {4, 6, 9, 11} THEN 30 ELSE 31

\* date(year, month, day): OverflowError for an argument beyond a C int,
\* ValueError for a year outside 1..9999 or a day the month does not have
DateConstructor(year, month, day) ==
    IF year > CIntMax \/ day > CIntMax THEN [raises |-> "OverflowError"]
    ELSE IF year < 1 \/ year > 9999 \/ day < 1 \/ day > DaysInMonth(year, month)
    THEN [raises |-> "ValueError"]
    ELSE [raises |-> None, value |-> [y |-> year, m |-> month, d |-> day]]

\* except (ValueError, IndexError): return None
ExceptCaught(exc) == exc \in {"ValueError", "IndexError"}

\* the body of the try block of _parse_date: what it returns or raises
ParseDateTry(parts) ==
    IF Len(parts) = 0 THEN [raises |-> "IndexError"]
    ELSE IF ~IsInt(parts[1]) THEN [raises |-> "ValueError"]
    ELSE LET year == IntOf(parts[1])
             month == IF Len(parts) > 1 THEN MonthMap(parts[2]) ELSE 1
         IN IF Len(parts) > 2 /\ ~IsInt(parts[3]) THEN [raises |-> "ValueError"]
            ELSE DateConstructor(year, month,
                                 IF Len(parts) > 2 THEN IntOf(parts[3]) ELSE 1)

InitParse ==
    /\ pd_str \in DateStrings
    /\ pd_pc = "call"
    /\ pd_result = Absent

ParkParse ==
    /\ pd_str = <<>>
    /\ pd_pc = "off"
    /\ pd_result = Absent

\* _parse_date(date_str)
ParseDate ==
    /\ pd_pc = "call"
    /\ IF pd_str = <<>>
       THEN pd_pc' = "returned" /\ pd_result' = Absent
       ELSE LET outcome == ParseDateTry(SplitWords(pd_str))
            IN IF outcome.raises = None
               THEN pd_pc' = "returned" /\ pd_result' = Present(outcome.value)
               ELSE IF ExceptCaught(outcome.raises)
               THEN pd_pc' = "returned" /\ pd_result' = Absent
               ELSE pd_pc' = "raised" /\ pd_result' = Present(outcome.raises)
    /\ UNCHANGED <<pd_str, notParse>>

NextParse == ParseDate

\* ------------------------------------------------------------------------
\* Record mapping: USPTOScraper._patent_to_document (uspto.py) and
\* GooglePatentsScraper._serpapi_result_to_document (google_patents.py)
\* ------------------------------------------------------------------------

\* A key the upstream dict does not have; a key it has is a str or, for a
\* JSON null, None.
Missing == [t |-> "missing", v |-> <<>>]

\* dict.get(key, default)
Get(field, default) == IF field.t = "missing" THEN default ELSE field

\* truth value of a str or None
Truthy(value) == value.t = "str" /\ value.v # <<>>

\* f"{value}": a str as it is, None as the text "None"
FormatValue(value) == IF value.t = "NoneType" THEN <<"None">> ELSE value.v

\* date.fromisoformat accepts YYYY-MM-DD only
IsIsoDate(str) ==
    /\ Len(str) = 5 /\ str[2] = "-" /\ str[4] = "-"
    /\ \E y \in Years : YearText(y) = str[1]
    /\ \E m \in 1..12 : TwoDigits[m] = str[3]
    /\ \E d \in 1..31 : TwoDigits[d] = str[5]

\* if date_str: try: date.fromisoformat(date_str) except ValueError: pass
ParseIsoDate(date_str) ==
    IF Truthy(date_str) /\ IsIsoDate(date_str.v)
    THEN Present(DateFromIso(date_str.v)) ELSE Absent

\* for inv in patent.get("inventors", []): if first or last:
\*     authors.append(Author(name=f"{first} {last}".strip()))
RECURSIVE InventorAuthors(_)
InventorAuthors(inventors) ==
    IF inventors = <<>> THEN <<>>
    ELSE LET first == Get(Head(inventors).inventor_name_first, PyStr(<<>>))
             last == Get(Head(inventors).inventor_name_last, PyStr(<<>>))
         IN (IF Truthy(first) \/ Truthy(last)
             THEN <<[name |-> Strip(FormatValue(first) \o <<" ">> \o FormatValue(last)),
                     affiliation |-> Absent]>>
             ELSE <<>>)
            \o InventorAuthors(Tail(inventors))

\* [x.get(key, "") for x in entries if x.get(key)]
RECURSIVE NonEmptyEntries(_)
NonEmptyEntries(entries) ==
    IF entries = <<>> THEN <<>>
    ELSE (IF Truthy(Head(entries))
          THEN <<PyStr(Get(Head(entries), PyStr(<<>>)).v)>> ELSE <<>>)
         \o NonEmptyEntries(Tail(entries))

\* a str | None value as an optional field of the document
OptionalField(value) == IF value.t = "str" THEN Present(value.v) ELSE Absent

\* A plausible misreading: only the first candidate is looked at.
OrFirstOnly(a, b) == a
\* a or b
Or(a, b) == IF Truthy(a) THEN a ELSE b

\* USPTOScraper._patent_to_document; scraped_at, the time of construction,
\* is left out of the mapped document
PatentToDocument(patent) ==
    LET title == Get(patent.patent_title, PyStr(<<>>))
        patent_id == Get(patent.patent_id, PyStr(<<>>))
    IN IF ~Truthy(title) THEN Absent
       ELSE Present(
         [source |-> "uspto", title |-> title.v,
          abstract |-> OptionalField(Get(patent.patent_abstract, PyNone)),
          authors |-> InventorAuthors(patent.inventors),
          publication_date |-> ParseIsoDate(patent.patent_date),
          identifiers |-> IF Truthy(patent_id)
                          THEN <<[type |-> <<"patent_number">>, value |-> patent_id.v]>>
                          ELSE <<>>,
          full_text_url |-> IF Truthy(patent_id)
                            THEN Present(<<"https://patents.google.com/patent/US">>
                                         \o patent_id.v)
                            ELSE Absent,
          journal_or_office |-> Present(<<"USPTO">>),
          chemical_entities |-> <<>>, keywords |-> <<>>,
          metadata |-> [cpc_codes |-> PyList(NonEmptyEntries(patent.cpc_current)),
                        assignees |-> PyList(NonEmptyEntries(patent.assignees))]])

\* GooglePatentsScraper._serpapi_result_to_document
SerpapiResultToDocument(result) ==
    LET title == Get(result.title, PyStr(<<>>))
        patent_id == Get(result.patent_id, PyStr(<<>>))
        inventor == Get(result.inventor, PyStr(<<>>))
        date_str == Or(Get(result.priority_date, PyNone), Get(result.filing_date, PyNone))
    IN IF ~Truthy(title) THEN Absent
       ELSE Present(
         [source |-> "google_patents", title |-> title.v,
          abstract |-> OptionalField(Get(result.snippet, PyNone)),
          authors |-> IF Truthy(inventor)
                      THEN <<[name |-> inventor.v, affiliation |-> Absent]>>
                      ELSE <<>>,
          publication_date |-> ParseIsoDate(date_str),
          identifiers |-> IF Truthy(patent_id)
                          THEN <<[type |-> <<"patent_number">>, value |-> patent_id.v]>>
                          ELSE <<>>,
          full_text_url |-> OptionalField(Get(result.pdf, Get(result.link, PyNone))),
          journal_or_office |-> OptionalField(Get(result.assignee, PyStr(<<>>))),
          chemical_entities |-> <<>>, keywords |-> <<>>,
          metadata |-> [grant_date |-> Get(result.grant_date, PyNone),
                        thumbnail |-> Get(result.thumbnail, PyNone)]])

\* ---- PubMedScraper._record_to_document (pubmed.py)

\* A MeSH heading is a string of symbols: a descriptor, "/", qualifiers, and
\* "*" marking a major topic.
MeshHeadings ==
    {<<"Aspirin", "/", "pharmacology">>,
     <<"*", "Aspirin", "/", "chemistry">>,
     <<"Aspirin", "/", "*", "Therapeutic Use">>,
     <<"Humans">>,
     <<"Ibuprofen", "/", "blood">>}

\* str.lower()
Lower(symbol) == IF symbol = "Therapeutic Use" THEN "therapeutic use" ELSE symbol

\* heading.replace("*", "").lower()
RemoveStars(heading) ==
    LET kept == SelectSeq(heading, LAMBDA c : c # "*")
    IN [i \in 1..Len(kept) |-> Lower(kept[i])]

\* _is_chemical_mesh: one of the indicators "/pharmacology", "/chemistry",
\* "/metabolism", "/chemical synthesis", "/therapeutic use", "/toxicity" is
\* in the heading
IsChemicalMesh(heading) ==
    LET heading_lower == RemoveStars(heading)
    IN \E i \in 1..(Len(heading_lower) - 1) :
          /\ heading_lower[i] = "/"
          /\ heading_lower[i + 1] \in {"pharmacology", "chemistry", "metabolism",
                                      "chemical synthesis", "therapeutic use",
                                      "toxicity"}

\* mh.strip("*")
RECURSIVE StripStars(_)
StripStars(str) ==
    IF str # <<>> /\ Head(str) = "*" THEN StripStars(Tail(str))
    ELSE IF str # <<>> /\ str[Len(str)] = "*"
    THEN StripStars(SubSeq(str, 1, Len(str) - 1))
    ELSE str

\* .split("/")[0]
RECURSIVE BeforeSlash(_)
BeforeSlash(str) ==
    IF str = <<>> \/ Head(str) = "/" THEN <<>>
    ELSE <<Head(str)>> \o BeforeSlash(Tail(str))

\* [mh.strip("*").split("/")[0] for mh in mesh_headings if self._is_chemical_mesh(mh)]
RECURSIVE ChemicalEntities(_)
ChemicalEntities(mesh_headings) ==
    IF mesh_headings = <<>> THEN <<>>
    ELSE (IF IsChemicalMesh(Head(mesh_headings))
          THEN <<BeforeSlash(StripStars(Head(mesh_headings)))>> ELSE <<>>)
         \o ChemicalEntities(Tail(mesh_headings))

\* for aid in record.get("AID", []): if aid.endswith("[doi]"):
\*     identifiers.append(Identifier(type="doi", value=aid.replace(" [doi]", "")))
RECURSIVE DoiIdentifiers(_)
DoiIdentifiers(aids) ==
    IF aids = <<>> THEN <<>>
    ELSE LET aid == Head(aids)
         IN (IF aid # <<>> /\ aid[Len(aid)] = " [doi]"
             THEN <<[type |-> <<"doi">>,
                     value |-> SelectSeq(aid, LAMBDA c : c # " [doi]")]>>
             ELSE <<>>)
            \o DoiIdentifiers(Tail(aids))

\* self._parse_date(date_str): the date, None, or the exception that leaves it
ParseDateOutcome(date_str) ==
    IF date_str = <<>> THEN [raises |-> None, value |-> Absent]
    ELSE LET outcome == ParseDateTry(SplitWords(date_str))
         IN IF outcome.raises = None
            THEN [raises |-> None, value |-> Present(outcome.value)]
            ELSE IF ExceptCaught(outcome.raises)
            THEN [raises |-> None, value |-> Absent]
            ELSE [raises |-> outcome.raises, value |-> Absent]

\* PubMedScraper._record_to_document, when _parse_date returned pub_date
MedlineRecordToDocument(record, pub_date) ==
    LET pmid == Get(record.PMID, PyNone)
    IN [source |-> "pubmed", title |-> record.TI.v,
        abstract |-> OptionalField(Get(record.AB, PyNone)),
        authors |-> [i \in 1..Len(record.AU) |->
                        [name |-> record.AU[i], affiliation |-> Absent]],
        publication_date |-> pub_date,
        identifiers |-> (IF Truthy(pmid)
                         THEN <<[type |-> <<"pmid">>, value |-> pmid.v]>> ELSE <<>>)
                        \o DoiIdentifiers(record.AID),
        chemical_entities |-> ChemicalEntities(record.MH),
        keywords |-> record.OT,
        journal_or_office |-> OptionalField(Get(record.JT, PyNone)),
        full_text_url |-> IF Truthy(pmid)
                          THEN Present(<<"https://pubmed.ncbi.nlm.nih.gov/">>
                                       \o pmid.v \o <<"/">>)
                          ELSE Absent,
        metadata |-> [mesh_headings |-> record.MH,
                      publication_type |-> record.PT,
                      language |-> record.LA]]

\* the records Medline.parse may yield; the MH lines of a record differ from
\* one another
MedlineRecords ==
    [TI : {PyStr(<<>>), PyStr(<<"T">>)},
     PMID : {Missing, PyStr(<<"123">>)},
     AID : {<<>>, <<<<"10.1/x", " [doi]">>, <<"S0", " [pii]">>>>},
     AU : {<<<<"Doe J">>, <<"Roe R">>>>},
     DP : {<<>>, <<"2024", " ", "Feb", " ", "15">>, <<"40000">>},
     MH : {mh \in UNION {[1..n -> MeshHeadings] : n \in 0..MaxHeadings} :
              \A i, j \in 1..Len(mh) : mh[i] = mh[j] => i = j},
     AB : {Missing},
     OT : {<<<<"drug">>>>},
     JT : {PyStr(<<"J Med">>)},
     PT : {<<>>},
     LA : {<<<<"eng">>>>}]

\* the records the PatentsView response may hold
FirstNames == {PyNone, PyStr(<<>>), PyStr(<<"Jane">>)}
LastNames == {Missing, PyStr(<<>>), PyStr(<<"Doe">>)}

Inventors ==
    UNION {[1..n -> [inventor_name_first : FirstNames, inventor_name_last : LastNames]] :
             n \in 0..MaxInventors}

Codes == UNION {[1..n -> {Missing, PyStr(<<>>), PyStr(<<"A61K">>)}] : n \in 0..MaxCodes}

PatentRecords ==
    [patent_title : {PyStr(<<>>), PyStr(<<"T">>)},
     patent_id : {Missing, PyStr(<<"11234567">>)},
     patent_date : {Missing, PyStr(<<"2024", "-", "06", "-", "15">>)},
     patent_abstract : {PyStr(<<"A new compound">>)},
     inventors : Inventors,
     cpc_current : Codes,
     assignees : {<<>>, <<PyStr(<<"Pharma Corp">>), PyStr(<<>>), PyStr(<<"Bio Inc">>)>>}]

\* the items of a SerpAPI organic_results list
SerpapiResults ==
    [title : {PyStr(<<>>), PyStr(<<"T">>)},
     patent_id : {Missing, PyStr(<<>>), PyStr(<<"US20240001234A1">>)},
     inventor : {Missing, PyNone, PyStr(<<"John Smith">>)},
     priority_date : {Missing, PyStr(<<>>), PyStr(<<"2023", "-", "06", "-", "15">>),
                      PyStr(<<"June 2023">>)},
     filing_date : {Missing, PyStr(<<"2024", "-", "01", "-", "10">>), PyStr(<<"2024">>)},
     pdf : {Missing, PyNone, PyStr(<<"https://patentimages/x.pdf">>)},
     link : {Missing, PyStr(<<"https://patents.google.com/patent/x">>)},
     assignee : {Missing, PyStr(<<"BioPharm Corp">>)},
     snippet : {Missing, PyStr(<<"A pharmaceutical composition...">>)},
     grant_date : {PyStr(<<"2024", "-", "01", "-", "10">>)},
     thumbnail : {Missing}]

\* ElementTree's elem.find(path[@lang='en']): the first element in document
\* order with that lang attribute, or None (0 here)
FindLang(elements, lang) ==
    IF \E i \in 1..Len(elements) : elements[i].lang = lang
    THEN CHOOSE i \in 1..Len(elements) :
            /\ elements[i].lang = lang
            /\ \A j \in 1..(i - 1) : elements[j].lang # lang
    ELSE 0

\* elem.find(path): the first element in document order, or None (0 here)
FindFirst(elements) == IF elements = <<>> THEN 0 ELSE 1

\* x = elem.find(...[@lang='en']); if x is None: x = elem.find(...)
PreferredElement(elements) ==
    IF FindLang(elements, "en") # 0 THEN FindLang(elements, "en")
    ELSE FindFirst(elements)

\* title_elem.text if title_elem is not None and title_elem.text else ""
TitleText(elements) ==
    IF PreferredElement(elements) = 0 THEN <<>>
    ELSE elements[PreferredElement(elements)].text

\* date(int(d[:4]), int(d[4:6]), int(d[6:8])) for an 8-character text, None
\* when the text is empty, of another length, or date() raises ValueError.
\* The text is held as its year, month and day parts.
EpoDate(doc_id) ==
    IF doc_id = <<>> THEN Absent
    ELSE LET d == doc_id[1].date
         IN IF /\ Len(d) = 3
               /\ \E y \in Years : YearText(y) = d[1]
               /\ \E m \in 1..12 : TwoDigits[m] = d[2]
               /\ \E n \in 1..31 : TwoDigits[n] = d[3]
            THEN Present([y |-> CHOOSE y \in Years : YearText(y) = d[1],
                          m |-> CHOOSE m \in 1..12 : TwoDigits[m] = d[2],
                          d |-> CHOOSE n \in 1..31 : TwoDigits[n] = d[3]])
            ELSE Absent

\* [x.text for x in elem.findall(path) if x.text]
RECURSIVE TextsOf(_)
TextsOf(elements) ==
    IF elements = <<>> THEN <<>>
    ELSE (IF Head(elements) # <<>> THEN <<Head(elements)>> ELSE <<>>)
         \o TextsOf(Tail(elements))

\* EPOScraper._element_to_document: None (Absent) for a record whose chosen
\* title element has no text
ElementToDocument(elem) ==
    IF TitleText(elem.titles) = <<>> THEN Absent
    ELSE Present(
        [source |-> "epo", title |-> TitleText(elem.titles),
         abstract |-> IF PreferredElement(elem.abstracts) = 0 THEN Absent
                      ELSE Present(elem.abstracts[PreferredElement(elem.abstracts)].text),
         authors |-> [i \in 1..Len(TextsOf(elem.applicants)) |->
                         [name |-> TextsOf(elem.applicants)[i], affiliation |-> Absent]],
         publication_date |-> EpoDate(elem.doc_id),
         identifiers |-> IF elem.doc_id # <<>> /\ elem.doc_id[1].doc_number # <<>>
                         THEN <<[type |-> <<"patent_number">>,
                                 value |-> elem.doc_id[1].country
                                           \o elem.doc_id[1].doc_number
                                           \o elem.doc_id[1].kind]>>
                         ELSE <<>>,
         journal_or_office |-> Present(<<"EPO">>),
         metadata |-> [ipc_codes |-> TextsOf(elem.ipc)]])

\* the invention-title elements of an exchange-document: at most one per
\* language, each with or without text
TitleLangs == {"en", "de"}
TitleOf(lang) == IF lang = "en" THEN <<"Compound">> ELSE <<"Verbindung">>

TitleElements ==
    {titles \in UNION {[1..n -> [lang : TitleLangs,
                                 text : {<<>>, <<"Compound">>, <<"Verbindung">>}]] :
                         n \in 0..Cardinality(TitleLangs)} :
        /\ \A i, j \in 1..Len(titles) : titles[i].lang = titles[j].lang => i = j
        /\ \A i \in 1..Len(titles) : titles[i].text \in {<<>>, TitleOf(titles[i].lang)}}

\* the exchange-document elements a search response may hold
ExchangeDocuments ==
    [titles : TitleElements,
     abstracts : {<<>>, <<[lang |-> "de", text |-> <<"Zusammenfassung">>],
                          [lang |-> "en", text |-> <<"An abstract">>]>>},
     doc_id : {<<>>,
               <<[country |-> <<"EP">>, doc_number |-> <<"1234567">>, kind |-> <<"A1">>,
                  date |-> <<"2024", "06", "15">>]>>,
               <<[country |-> <<"EP">>, doc_number |-> <<>>, kind |-> <<"A1">>,
                  date |-> <<"2024", "06">>]>>},
     applicants : {<<<<"Pharma AG">>, <<>>>>},
     ipc : {<<<<"A61K 31/00">>>>}]

InitMapping ==
    /\ mp_kind \in {"uspto", "serpapi", "pubmed", "epo"}
    /\ mp_record \in CASE mp_kind = "uspto" -> PatentRecords
                       [] mp_kind = "serpapi" -> SerpapiResults
                       [] mp_kind = "pubmed" -> MedlineRecords
                       [] mp_kind = "epo" -> ExchangeDocuments
    /\ mp_pc = "call"
    /\ mp_doc = Absent

ParkMapping ==
    /\ mp_kind = None
    /\ mp_record = None
    /\ mp_pc = "off"
    /\ mp_doc = Absent

\* doc = self._patent_to_document(patent)
MapPatent ==
    /\ mp_pc = "call" /\ mp_kind = "uspto"
    /\ mp_doc' = PatentToDocument(mp_record)
    /\ mp_pc' = "returned"
    /\ UNCHANGED <<mp_kind, mp_record, notMapping>>

\* doc = self._serpapi_result_to_document(result)
MapSerpapiResult ==
    /\ mp_pc = "call" /\ mp_kind = "serpapi"
    /\ mp_doc' = SerpapiResultToDocument(mp_record)
    /\ mp_pc' = "returned"
    /\ UNCHANGED <<mp_kind, mp_record, notMapping>>

\* doc = self._record_to_document(record)
MapMedlineRecord ==
    /\ mp_pc = "call" /\ mp_kind = "pubmed"
    /\ IF ~Truthy(mp_record.TI)
       THEN mp_doc' = Absent /\ mp_pc' = "returned"
       ELSE LET parsed == ParseDateOutcome(mp_record.DP)
            IN IF parsed.raises # None
               THEN mp_doc' = Absent /\ mp_pc' = "raised"
               ELSE /\ mp_doc' = Present(MedlineRecordToDocument(mp_record, parsed.value))
                    /\ mp_pc' = "returned"
    /\ UNCHANGED <<mp_kind, mp_record, notMapping>>

\* doc = self._element_to_document(elem, ns)
MapElement ==
    /\ mp_pc = "call" /\ mp_kind = "epo"
    /\ mp_doc' = ElementToDocument(mp_record)
    /\ mp_pc' = "returned"
    /\ UNCHANGED <<mp_kind, mp_record, notMapping>>

NextMapping ==
    \/ MapPatent
    \/ MapSerpapiResult
    \/ MapMedlineRecord
    \/ MapElement

\* ------------------------------------------------------------------------
\* Adapter instances: the __init__ of the four scrapers and the state their
\* requests use
\* ------------------------------------------------------------------------

\* The settings objects an adapter can be built from: a contact email and one
\* key per upstream ("" when it is not set).
SettingsChoices ==
    {[ncbi_email |-> "a@lab.org", ncbi_api_key |-> "n1", uspto_api_key |-> "u1",
      serpapi_key |-> "s1", epo_key |-> "e1", epo_secret |-> "x1"],
     [ncbi_email |-> "b@lab.org", ncbi_api_key |-> "n2", uspto_api_key |-> "u2",
      serpapi_key |-> "s2", epo_key |-> "e2", epo_secret |-> "x2"],
     [ncbi_email |-> "b@lab.org", ncbi_api_key |-> "", uspto_api_key |-> "",
      serpapi_key |-> "", epo_key |-> "", epo_secret |-> ""]}

\* RateLimiter(requests_per_second): its rate and the number of wait() calls
\* that stamped _last_request_time
NewRateLimiter(rate) == [rate |-> rate, calls |-> 0]

\* The object __init__ leaves behind. PubMedScraper keeps a RateLimiter and no
\* credential of its own; USPTOScraper a RateLimiter and a Session with the
\* X-Api-Key header; GooglePatentsScraper _serpapi_key, a RateLimiter and a
\* Session; EPOScraper a client, or None, and no RateLimiter.
NewInstance(type, settings) ==
    [type |-> type,
     key |-> CASE type = "pubmed" -> None
               [] type = "uspto" ->
                    IF settings.uspto_api_key # "" THEN settings.uspto_api_key ELSE None
               [] type = "google_patents" -> settings.serpapi_key
               [] type = "epo" ->
                    IF settings.epo_key # "" /\ settings.epo_secret # ""
                    THEN settings.epo_key ELSE None,
     rate_limiter |-> CASE type = "pubmed" -> NewRateLimiter("ncbi_rate_limit")
                        [] type = "uspto" -> NewRateLimiter("0.75")
                        [] type = "google_patents" -> NewRateLimiter("1.0")
                        [] type = "epo" -> NewRateLimiter(None)]

\* PubMedScraper.__init__: Entrez.email = settings.ncbi_email;
\* if settings.ncbi_api_key: Entrez.api_key = settings.ncbi_api_key
SetEntrez(entrez, type, settings) ==
    IF type # "pubmed" THEN entrez
    ELSE [email |-> settings.ncbi_email,
          api_key |-> IF settings.ncbi_api_key # "" THEN settings.ncbi_api_key
                      ELSE entrez.api_key]

\* The credentials an upstream request of the instance carries: Bio.Entrez
\* reads its module attributes when the request is built, the other adapters
\* send what the instance holds.
RequestCredentials(obj, entrez) ==
    IF obj.type = "pubmed" THEN entrez
    ELSE [email |-> None, api_key |-> obj.key]

InitInstances ==
    /\ in_entrez = [email |-> None, api_key |-> None]
    /\ in_objs = <<>>
    /\ in_made = <<>>
    /\ in_log = <<>>

ParkInstances ==
    /\ in_entrez = [email |-> "off", api_key |-> "off"]
    /\ in_objs = <<>>
    /\ in_made = <<>>
    /\ in_log = <<>>

\* scraper = scraper_cls(settings)
Construct(type, settings) ==
    /\ in_entrez.email # "off"
    /\ Len(in_objs) < MaxInstances
    /\ in_entrez' = SetEntrez(in_entrez, type, settings)
    /\ in_objs' = Append(in_objs, NewInstance(type, settings))
    /\ in_made' = Append(in_made,
          RequestCredentials(NewInstance(type, settings), in_entrez'))
    /\ UNCHANGED <<in_log, notInstances>>

\* one upstream request of the i-th instance: wait() on its own limiter where
\* it has one, then the call
InstanceRequest(i) ==
    /\ i \in 1..Len(in_objs)
    /\ Len(in_log) < MaxRequests
    /\ in_objs' = [in_objs EXCEPT ![i].rate_limiter.calls =
                      IF in_objs[i].type = "epo" THEN @ ELSE @ + 1]
    /\ in_log' = Append(in_log, i)
    /\ UNCHANGED <<in_entrez, in_made, notInstances>>

NextInstances ==
    \/ \E type \in RegisteredNames, settings \in SettingsChoices : Construct(type, settings)
    \/ \E i \in 1..MaxInstances : InstanceRequest(i)

\* ------------------------------------------------------------------------
\* Specifications
\* ------------------------------------------------------------------------
StartLimiter ==
    InitLimiter /\ ParkRetry /\ ParkSearch /\ ParkScrape
    /\ ParkStorage /\ ParkParse /\ ParkMapping /\ ParkInstances
StartRetry ==
    ParkLimiter /\ InitRetry /\ ParkSearch /\ ParkScrape
    /\ ParkStorage /\ ParkParse /\ ParkMapping /\ ParkInstances
StartSearch ==
    ParkLimiter /\ ParkRetry /\ InitSearch /\ ParkScrape
    /\ ParkStorage /\ ParkParse /\ ParkMapping /\ ParkInstances
StartScrape ==
    ParkLimiter /\ ParkRetry /\ ParkSearch /\ InitScrape
    /\ ParkStorage /\ ParkParse /\ ParkMapping /\ ParkInstances
StartStorage ==
    ParkLimiter /\ ParkRetry /\ ParkSearch /\ ParkScrape
    /\ InitStorage /\ ParkParse /\ ParkMapping /\ ParkInstances
StartParse ==
    ParkLimiter /\ ParkRetry /\ ParkSearch /\ ParkScrape
    /\ ParkStorage /\ InitParse /\ ParkMapping /\ ParkInstances
StartMapping ==
    ParkLimiter /\ ParkRetry /\ ParkSearch /\ ParkScrape
    /\ ParkStorage /\ ParkParse /\ InitMapping /\ ParkInstances
StartInstances ==
    ParkLimiter /\ ParkRetry /\ ParkSearch /\ ParkScrape
    /\ ParkStorage /\ ParkParse /\ ParkMapping /\ InitInstances

SpecLimiter == StartLimiter /\ [][NextLimiter]_vars
SpecRetry == StartRetry /\ [][NextRetry]_vars
SpecSearch == StartSearch /\ [][NextSearch]_vars
SpecScrape == StartScrape /\ [][NextScrape]_vars
SpecStorage == StartStorage /\ [][NextStorage]_vars
SpecParse == StartParse /\ [][NextParse]_vars
SpecMapping == StartMapping /\ [][NextMapping]_vars
SpecInstances == StartInstances /\ [][NextInstances]_vars

\* what every step of search() changes: its position, the requests and the
\* documents so far, and the cursor or page number of a running loop
Progress ==
    <<se_pc, Len(se_requests), Len(se_documents),
      IF se_pc # "loop" THEN 0
      ELSE IF se_adapter = "uspto" THEN se_loc.cursor
      ELSE IF se_adapter = "google_patents" THEN se_loc.page
      ELSE 0>>

\* search() keeps running: a step is taken whenever one can be
\* Every caller inside wait() keeps being scheduled, time keeps passing, and
\* the lock is fair: a caller that finds the lock free again and again gets it.
SpecLimiterOn ==
    /\ StartLimiter /\ [][NextLimiterOn]_vars
    /\ WF_rlVars(TickOn)
    /\ \A t \in Threads : WF_rlVars(WaitStep(t)) /\ SF_rlVars(WaitAcquire(t))

SpecSearchOn == StartSearch /\ [][NextSearchOn]_vars /\ WF_Progress(NextSearchOn)

\* The whole system: any one of the components, started and run.
Init ==
    StartLimiter \/ StartRetry \/ StartSearch \/ StartScrape \/ StartStorage \/ StartParse
    \/ StartMapping \/ StartInstances
Next ==
    NextLimiter \/ NextRetry \/ NextSearch \/ NextScrape \/ NextStorage \/ NextParse
    \/ NextMapping \/ NextInstances
Spec == Init /\ [][Next]_vars

\* ------------------------------------------------------------------------
\* Claims
\* ------------------------------------------------------------------------

C2_AtMostMaxResults ==
    se_pc = "done" => Len(se_result) <= se_args.max_results

\* The documents of all received records that have a title, in upstream order.
TitledReceived == PageDocuments(se_adapter, se_received, 0)

\* C3: for every adapter the returned sequence is, in upstream order, the
\* documents of the received records with a non-empty title, cut off at
\* max_results; a record without a title yields no document and no error.
C3_TitledInOrder ==
    se_pc = "done" =>
        /\ se_result = SubSeq(TitledReceived, 1,
                              Min(Len(TitledReceived), se_args.max_results))
        /\ \A i \in 1..Len(se_result) : se_received[se_result[i].n] # ""

\* C4: for every adapter, when a page fetch fails with a transient transport
\* error and the retries are exhausted, search does not raise: it returns the
\* documents accumulated from the earlier pages.
C4_FailedPageReturnsPartial ==
    se_last = "transient_error" =>
        se_pc = "done" /\ se_result = se_documents

\* The run has ended, normally or with an exception leaving scrape.
RunEnded == cl_pc \in {"done", "aborted"}

Searches == SelectSeq(cl_log, LAMBDA e : e.op = "search")

\* C5: in a multi-source run an error raised inside one adapter never aborts
\* the others: every resolved source after the failing one is still searched.
C5_ErrorsContained ==
    (RunEnded /\ cl_failed # 0) =>
        \A j \in (cl_failed + 1)..Len(cl_names) :
            \E k \in 1..Len(Searches) : Searches[k].i = j

\* C9: if any name of the resolved source list is not registered, the run is
\* rejected before any adapter is constructed, any search is called or any
\* document is written, also when the unknown name follows valid names.
C9_RejectBeforeAnyWork ==
    LET names == ResolveSources(cl_source)
    IN (\E j \in 1..Len(names) : ~Registered(names[j])) =>
          /\ cl_pc \in {"start", "rejected"}
          /\ cl_log = <<>>
          /\ \A p \in Paths : cl_files[p] = <<>>
          /\ cl_total = 0

\* C9 witness: a list whose first name is registered and whose second is not
\* has been rejected.
C9_Witness ==
    /\ cl_pc = "rejected"
    /\ Len(cl_names) = 2
    /\ Registered(cl_names[1]) /\ ~Registered(cl_names[2])

\* C10: "all" resolves to every registered name in registry order, a
\* comma-separated list to the listed names, trimmed, in the listed order;
\* the adapters run one after another in that order and each resolved name's
\* search is called exactly once with the run's query, max_results, date_from
\* and date_to.
C10_EachResolvedSearchedOnce ==
    RunEnded =>
        /\ cl_source = <<"all">> =>
             cl_names = <<<<"pubmed">>, <<"google_patents">>, <<"uspto">>, <<"epo">>>>
        /\ cl_source # <<"all">> => cl_names = ResolveSources(cl_source)
        /\ Len(Searches) = Len(cl_names)
        /\ \A j \in 1..Len(Searches) :
             /\ Searches[j].i = j
             /\ Searches[j].name = cl_names[j]
             /\ Searches[j].args = cl_args
        /\ \A k \in 1..Len(cl_log) :
             cl_log[k].op = "construct" =>
                /\ k < Len(cl_log) /\ cl_log[k + 1].op = "search"
                /\ cl_log[k + 1].i = cl_log[k].i

Returns == SelectSeq(cl_log, LAMBDA e : e.op = "returned")

Appends == SelectSeq(cl_log, LAMBDA e : e.op = "append")

RECURSIVE SumAppended(_)
SumAppended(appends) ==
    IF appends = <<>> THEN 0 ELSE Head(appends).count + SumAppended(Tail(appends))

RECURSIVE SumReturned(_)
SumReturned(returns) ==
    IF returns = <<>> THEN 0
    ELSE Len(Head(returns).documents) + SumReturned(Tail(returns))

\* C11: at every point of a scrape run, a source has an append exactly when
\* its search returned at least one document (at most one append per
\* source, with the count of the documents returned), and the running total,
\* hence the final one, is the sum of the counts the appends returned, which
\* is the number of documents returned by all the searches so far.
C11_AppendIffDocuments ==
    /\ \A k \in 1..Len(Returns) :
          LET mine == SelectSeq(Appends, LAMBDA e : e.i = Returns[k].i)
          IN IF Returns[k].documents = <<>>
             THEN mine = <<>>
             ELSE Len(mine) = 1 /\ mine[1].count = Len(Returns[k].documents)
    /\ \A a \in 1..Len(Appends) :
          \E k \in 1..Len(Returns) : Returns[k].i = Appends[a].i
    /\ cl_total = SumAppended(Appends)
    /\ cl_total = SumReturned(Returns)

\* a finished run of all four sources: the first and the last returned
\* nothing, the other two returned documents
C11_Witness ==
    /\ cl_pc = "done"
    /\ Len(Returns) = 4
    /\ Returns[1].documents = <<>>
    /\ Len(Returns[2].documents) = 2
    /\ Len(Returns[3].documents) = 1
    /\ Returns[4].documents = <<>>
    /\ Len(Appends) = 2
    /\ cl_total = 3

\* the path the documents of the adapter `name` are to be written to
ExpectedPath(name) ==
    IF cl_output \notin {None, ""} THEN <<cl_output>> ELSE <<"data", name, ".jsonl">>

\* the documents the searches returned for the path p, in source order
RECURSIVE ReturnedFor(_, _)
ReturnedFor(returns, p) ==
    IF returns = <<>> THEN <<>>
    ELSE (IF ExpectedPath(Head(returns).name) = p
          THEN Head(returns).documents ELSE <<>>)
         \o ReturnedFor(Tail(returns), p)

\* C12: every append of a run goes to the operator's output path when one
\* is given (a non-empty --output) and otherwise to
\* <output_dir>/<adapter name>.jsonl, so each file holds exactly the
\* documents returned for it, in source order; with an output path given all
\* sources share that one file.
C12_OutputPath ==
    /\ \A a \in 1..Len(Appends) : Appends[a].path = ExpectedPath(Appends[a].name)
    /\ cl_pc # "off" =>
          \A p \in Paths : cl_files[p] = ReturnedFor(Returns, p)

\* two different sources of one run appended to the operator's file
C12_Witness ==
    /\ cl_pc = "done"
    /\ cl_output = "o.jsonl"
    /\ Len(Appends) = 2
    /\ Appends[1].name # Appends[2].name
    /\ Len(cl_files[<<"o.jsonl">>]) = Appends[1].count + Appends[2].count
    /\ \A n \in RegisteredNames : cl_files[DefaultOutputPath(<<n>>)] = <<>>

\* C13: an EPO adapter constructed without the key or without the secret
\* has no client, and its search, whatever the arguments, makes no upstream
\* call, does not raise and returns the empty sequence.
C13_EPOWithoutCredentials ==
    (se_adapter = "epo" /\ ~(se_cred.key /\ se_cred.secret)) =>
        /\ ~HasClient(se_cred)
        /\ se_requests = <<>>
        /\ se_pc \in {"start", "done"}
        /\ se_pc = "done" => se_result = <<>>

\* a search with a key but no secret, asked for documents in a date range,
\* has returned
C13_Witness ==
    /\ se_adapter = "epo" /\ se_cred.key /\ ~se_cred.secret
    /\ se_args.max_results > 0 /\ se_args.date_from # None
    /\ se_pc = "done" /\ se_result = <<>> /\ se_requests = <<>>

FullPageLen(adapter, page) ==
    CASE adapter = "uspto" -> USPTO_PAGE_SIZE
      [] adapter = "epo" -> EPO_PAGE_SIZE
      [] adapter = "pubmed" -> BATCH_SIZE
      [] OTHER -> Len(page.records)

FullThenEmpty ==
    /\ Len(se_pages) >= 2
    /\ se_pages[1].kind = "ok" /\ se_pages[1].records # <<>>
    /\ Len(se_pages[1].records) = FullPageLen(se_adapter, se_pages[1])
    /\ se_pages[2].kind = "ok" /\ se_pages[2].records = <<>>
    /\ MaxOf(se_args) > FullPageLen(se_adapter, se_pages[1])

\* C16: whenever the first page fetch of a search received a full page and
\* the second an empty one, and max_results exceeds the page size, the search
\* has made exactly those two fetches, has returned, and its result is the
\* documents of the first page.
C16_StopsAfterEmptyPage ==
    FullThenEmpty =>
        /\ Len(se_pages) = 2
        /\ se_pc = "done"
        /\ se_result = PageDocuments(se_adapter, se_pages[1].records, 0)

\* C18: once a page fetch has received a malformed or unparsable payload,
\* the search has returned (it did not raise, and it fetches no further
\* page) and its result is the documents accumulated from the pages before.
C18_MalformedPageEndsPagination ==
    \A i \in 1..Len(se_pages) :
        se_pages[i].kind = "malformed" =>
            /\ i = Len(se_pages)
            /\ se_pc = "done"
            /\ se_result = se_documents

\* the upstream search requests of the search so far (for pubmed the
\* esearch call; its efetch calls continue that search by its handle)
SearchRequests ==
    IF se_adapter = "pubmed"
    THEN SelectSeq(se_requests, LAMBDA req : req.call = "esearch")
    ELSE se_requests

\* the request carries a lower date bound made from date_from
CarriesLower(req, date_from) ==
    CASE se_adapter = "uspto" -> req.gte = Present(date_from)
      [] se_adapter = "epo" -> req.pd_gte = Present(date_from)
      [] se_adapter = "pubmed" -> req.mindate = Present(date_from)
      [] se_adapter = "google_patents" ->
            IF Strategy(se_cred) = "serpapi"
            THEN req.after = Present(date_from)
            ELSE req.after = Present(<<"priority:", date_from>>)

\* the request carries an upper date bound made from date_to
CarriesUpper(req, date_to) ==
    CASE se_adapter = "uspto" -> req.lte = Present(date_to)
      [] se_adapter = "epo" -> req.pd_lte = Present(date_to)
      [] se_adapter = "pubmed" -> req.maxdate = Present(date_to)
      [] se_adapter = "google_patents" ->
            IF Strategy(se_cred) = "serpapi"
            THEN req.before = Present(date_to)
            ELSE req.before = Present(<<"priority:", date_to>>)

\* C19: in every adapter and strategy, every upstream search request of a
\* search carries a lower date bound made from date_from whenever date_from
\* is supplied, and an upper date bound made from date_to whenever date_to
\* is supplied, whether or not the other bound is supplied.
C19_DateBoundsCarried ==
    se_pc # "off" =>
        \A i \in 1..Len(SearchRequests) :
            /\ se_args.date_from # None =>
                  CarriesLower(SearchRequests[i], se_args.date_from)
            /\ se_args.date_to # None =>
                  CarriesUpper(SearchRequests[i], se_args.date_to)

\* C20: _parse_date maps "YYYY Mon DD" to that date, "YYYY Mon" to the first
\* of that month and "YYYY" to 1 January, by the month table; it returns no
\* date for the empty string and for a first word that is not a number; and
\* it raises for no input string.
C20_ParseDate ==
    /\ pd_pc # "raised"
    /\ pd_pc = "returned" =>
          /\ pd_str = <<"2024", " ", "Mar", " ", "15">> =>
                pd_result = Present([y |-> 2024, m |-> 3, d |-> 15])
          /\ pd_str = <<"2024", " ", "Feb", " ", "15">> =>
                pd_result = Present([y |-> 2024, m |-> 2, d |-> 15])
          /\ pd_str = <<"2024", " ", "Mar", " ", "31">> =>
                pd_result = Present([y |-> 2024, m |-> 3, d |-> 31])
          /\ pd_str = <<"2024", " ", "Mar">> =>
                pd_result = Present([y |-> 2024, m |-> 3, d |-> 1])
          /\ pd_str = <<"2024", " ", "Feb">> =>
                pd_result = Present([y |-> 2024, m |-> 2, d |-> 1])
          /\ pd_str = <<"2024">> =>
                pd_result = Present([y |-> 2024, m |-> 1, d |-> 1])
          /\ pd_str = <<>> => pd_result = Absent
          /\ (SplitWords(pd_str) # <<>> /\ ~IsInt(SplitWords(pd_str)[1])) =>
                pd_result = Absent

\* the text of a name part: nothing for a missing, null or empty part
NamePart(field) == IF field.t = "str" THEN field.v ELSE <<>>

\* one author per inventor with a name part, named "first last" trimmed
RECURSIVE ExpectedAuthors(_)
ExpectedAuthors(inventors) ==
    IF inventors = <<>> THEN <<>>
    ELSE LET first == NamePart(Head(inventors).inventor_name_first)
             last == NamePart(Head(inventors).inventor_name_last)
         IN (IF first = <<>> /\ last = <<>> THEN <<>>
             ELSE <<Strip(first \o <<" ">> \o last)>>)
            \o ExpectedAuthors(Tail(inventors))

\* the non-empty strings of a list, in order
ExpectedEntries(entries) ==
    LET kept == SelectSeq(entries, LAMBDA e : e.t = "str" /\ e.v # <<>>)
    IN [i \in 1..Len(kept) |-> kept[i].v]

\* C21: the document mapped from a USPTO patent record has one author per
\* inventor that has a first or a last name, in input order, named
\* "first last" trimmed; one patent_number identifier holding the record's
\* id; and metadata cpc_codes and assignees equal to the non-empty CPC ids and
\* assignee organizations of the record, in input order.
C21_PatentMapping ==
    (mp_kind = "uspto" /\ mp_pc = "returned" /\ mp_doc # Absent) =>
        LET doc == mp_doc[1]
            expected == ExpectedAuthors(mp_record.inventors)
        IN /\ Len(doc.authors) = Len(expected)
           /\ \A i \in 1..Len(expected) : doc.authors[i].name = expected[i]
           /\ mp_record.patent_id.t = "str" =>
                 /\ Len(doc.identifiers) = 1
                 /\ doc.identifiers[1].type = <<"patent_number">>
                 /\ doc.identifiers[1].value = mp_record.patent_id.v
           /\ LET cpc == ExpectedEntries(mp_record.cpc_current)
                  org == ExpectedEntries(mp_record.assignees)
              IN /\ Len(doc.metadata.cpc_codes.v) = Len(cpc)
                 /\ \A i \in 1..Len(cpc) : doc.metadata.cpc_codes.v[i].v = cpc[i]
                 /\ Len(doc.metadata.assignees.v) = Len(org)
                 /\ \A i \in 1..Len(org) : doc.metadata.assignees.v[i].v = org[i]

\* a field the result item has with a non-empty string
HasText(field) == field.t = "str" /\ field.v # <<>>

\* the first of priority_date and filing_date that has text
FirstDate(result) ==
    IF HasText(result.priority_date) THEN result.priority_date
    ELSE result.filing_date

C23_SearchTerminates == <>(se_pc \in {"done", "raised"})

\* the sum of the retmax of the requests from the i-th on
RECURSIVE SumRetmax(_, _)
SumRetmax(requests, i) ==
    IF i > Len(requests) THEN 0 ELSE requests[i].retmax + SumRetmax(requests, i + 1)

\* ceil(n / BATCH_SIZE)
BatchCount(n) == (n + BATCH_SIZE - 1) \div BATCH_SIZE

\* C24: the PubMed search issues one history-backed esearch first, then
\* ceil(min(total_count, max_results) / BATCH_SIZE) efetch calls with retstart
\* 0, BATCH_SIZE, 2*BATCH_SIZE, ... and retmax = min(BATCH_SIZE, records still
\* to fetch), each carrying the WebEnv and QueryKey that esearch returned; the
\* sizes sum to min(total_count, max_results), and there is no efetch when
\* that minimum is 0.
C24_PubMedRequestSequence ==
    (se_adapter = "pubmed" /\ se_pc \in {"loop", "done", "raised"}) =>
        /\ Len(se_requests) >= 1
        /\ se_requests[1].call = "esearch" /\ se_requests[1].usehistory = "y"
        /\ se_loc # NoLocals =>
              LET n == Min(se_loc.total_count, se_args.max_results)
              IN /\ Len(se_requests) <= 1 + BatchCount(n)
                 /\ \A k \in 1..(Len(se_requests) - 1) :
                       LET req == se_requests[k + 1]
                       IN /\ req.call = "efetch"
                          /\ req.retstart = BATCH_SIZE * (k - 1)
                          /\ req.retmax = Min(BATCH_SIZE, n - BATCH_SIZE * (k - 1))
                          /\ req.webenv = se_loc.web_env
                          /\ req.query_key = se_loc.query_key
                 /\ se_pc = "done" =>
                       /\ Len(se_requests) = 1 + BatchCount(n)
                       /\ SumRetmax(se_requests, 2) = n
                       /\ n = 0 => Len(se_requests) = 1

\* a search that returned after three batches, the last one short
C24_Witness ==
    /\ se_adapter = "pubmed" /\ se_pc = "done"
    /\ Len(se_requests) = 4
    /\ se_requests[4].retmax < BATCH_SIZE
    /\ se_loc.total_count > se_args.max_results

\* the number of titled records in the first k pages received
RECURSIVE TitledIn(_, _)
TitledIn(pages, k) ==
    IF k = 0 THEN 0
    ELSE TitledIn(pages, k - 1)
         + Len(SelectSeq(pages[k].records, LAMBDA title : title # ""))

\* C25: in the USPTO search every request has page size
\* min(USPTO_PAGE_SIZE, max_results - documents collected so far), between 1
\* and USPTO_PAGE_SIZE; the first request has no `after` and each later one
\* has as `after` the cursor of the response just before it; and no request
\* follows a response with zero records or no next cursor, or the collection
\* of max_results documents.
C25_USPTOPagination ==
    se_adapter = "uspto" =>
        /\ \A k \in 1..Len(se_requests) :
              LET collected == TitledIn(se_pages, k - 1)
              IN /\ se_requests[k].size
                      = Min(USPTO_PAGE_SIZE, se_args.max_results - collected)
                 /\ 1 <= se_requests[k].size /\ se_requests[k].size <= USPTO_PAGE_SIZE
                 /\ se_requests[k].after
                      = IF k = 1 THEN Absent ELSE Present(se_pages[k - 1].cursor)
                 /\ k > 1 =>
                       /\ se_pages[k - 1].records # <<>>
                       /\ se_pages[k - 1].cursor # 0
                       /\ collected < se_args.max_results
        /\ (se_pc = "loop" /\ se_pages # <<>>) =>
              /\ se_pages[Len(se_pages)].records # <<>>
              /\ se_pages[Len(se_pages)].cursor # 0
              /\ Len(se_documents) < se_args.max_results

\* three requests, the third smaller than a page because of the documents
\* collected by then
C25_Witness ==
    /\ se_adapter = "uspto" /\ se_pc = "done"
    /\ Len(se_requests) = 3
    /\ se_requests[1].size = USPTO_PAGE_SIZE
    /\ se_requests[3].size < USPTO_PAGE_SIZE
    /\ se_requests[3].after = Present(se_pages[2].cursor)
    /\ se_pages[3].cursor = 0

\* C26: in the EPO search with credentials the k-th request has the range
\* begin = EPO_PAGE_SIZE*(k-1)+1, end = min(begin+EPO_PAGE_SIZE-1, max_results),
\* so 1 <= begin <= end <= max_results, and each range starts right after the
\* one before it.
C26_EPORanges ==
    se_adapter = "epo" =>
        \A k \in 1..Len(se_requests) :
            LET req == se_requests[k]
            IN /\ req.range_begin = EPO_PAGE_SIZE * (k - 1) + 1
               /\ req.range_end
                    = Min(req.range_begin + EPO_PAGE_SIZE - 1, se_args.max_results)
               /\ 1 <= req.range_begin /\ req.range_begin <= req.range_end
               /\ req.range_end <= se_args.max_results
               /\ k > 1 => req.range_begin = se_requests[k - 1].range_end + 1

\* three requests, the last range cut short by max_results
C26_Witness ==
    /\ se_adapter = "epo" /\ HasClient(se_cred)
    /\ Len(se_requests) = 3
    /\ se_requests[3].range_end = se_args.max_results
    /\ se_requests[3].range_end < se_requests[3].range_begin + EPO_PAGE_SIZE - 1

\* a page whose call raised or whose status was not 200
PageFailed(page) == page.kind \in {"transient_error", "non200"}

\* C27: in the EPO search a page-level failure (an exception from the client
\* call, or a status other than 200) ends pagination without raising, and
\* search returns the documents accumulated from the pages before it.
C27_EPOFailureReturnsAccumulated ==
    se_adapter = "epo" =>
        \A i \in 1..Len(se_pages) :
            PageFailed(se_pages[i]) =>
                /\ i = Len(se_pages)
                /\ se_pc = "done"
                /\ se_result = PageDocuments("epo", se_received, 0)
                /\ Len(se_result) = TitledIn(se_pages, i - 1)

\* a second page that failed after a first page of documents
C27_Witness ==
    /\ se_adapter = "epo" /\ se_pc = "done"
    /\ Len(se_pages) = 2 /\ PageFailed(se_pages[2])
    /\ Len(se_result) = EPO_PAGE_SIZE

\* C28: the EPO search ends before max_results documents are collected only
\* if a page call failed or the page held fewer than EPO_PAGE_SIZE
\* exchange-documents (none included); a page with a full EPO_PAGE_SIZE
\* exchange-documents never ends pagination (pages holding more than the
\* range asked for are left aside).
C28_EPOFullPageContinues ==
    (se_adapter = "epo" /\ se_pc = "done" /\ se_pages # <<>>
        /\ Len(se_result) < se_args.max_results) =>
        LET last == se_pages[Len(se_pages)]
            asked == se_requests[Len(se_requests)]
        IN \/ last.kind # "ok"
           \/ Len(last.records) < EPO_PAGE_SIZE
           \/ Len(last.records) > asked.range_end - asked.range_begin + 1

\* a call of the structured API / a fetch of the public HTML search page
IsSerpapiCall(request) == "engine" \in DOMAIN request
IsHttpFetch(request) == "url" \in DOMAIN request

\* C30: a google_patents instance with an API credential issues only
\* structured-API calls and never fetches the HTML search page; one without
\* issues only HTML page fetches and never calls the structured API.
C30_StrategiesExclusive ==
    se_adapter = "google_patents" =>
        \A i \in 1..Len(se_requests) :
            IF se_cred.key
            THEN IsSerpapiCall(se_requests[i]) /\ ~IsHttpFetch(se_requests[i])
            ELSE IsHttpFetch(se_requests[i]) /\ ~IsSerpapiCall(se_requests[i])

\* a search with a credential that returned after two structured-API calls
C30_Witness ==
    /\ se_adapter = "google_patents" /\ se_cred.key /\ se_pc = "done"
    /\ Len(se_requests) = 2
    /\ \A i \in 1..2 : IsSerpapiCall(se_requests[i])

\* the number of upstream requests the i-th instance issued
RequestsOf(i) == Len(SelectSeq(in_log, LAMBDA j : j = i))

\* C31: no mutable state is shared between adapter instances: constructing
\* or running one instance never changes the credentials or the rate-limiter
\* state another instance uses, a second instance of the same type included.
C31_NoSharedState ==
    \A i \in 1..Len(in_objs) :
        /\ RequestCredentials(in_objs[i], in_entrez) = in_made[i]
        /\ in_objs[i].rate_limiter.calls
             = IF in_objs[i].type = "epo" THEN 0 ELSE RequestsOf(i)

\* no element of the sequence occurs twice
NoDuplicates(seq) == \A i, j \in 1..Len(seq) : seq[i] = seq[j] => i = j

\* C32: chemical_entities is set-like: in a document of the PubMed adapter
\* each substance name occurs at most once, also when several MeSH headings
\* share the name before their first "/"; in a document of a patent adapter
\* it is empty.
C32_ChemicalEntitiesSetLike ==
    (mp_pc = "returned" /\ mp_doc # Absent) =>
        IF mp_kind = "pubmed"
        THEN NoDuplicates(mp_doc[1].chemical_entities)
        ELSE mp_doc[1].chemical_entities = <<>>

\* the title elements of the given language that carry text
TitledElements(titles, langs) ==
    {i \in 1..Len(titles) : titles[i].lang \in langs /\ titles[i].text # <<>>}

\* C33: the EPO mapping takes the English title when the record has one and
\* otherwise a title in any language, and it skips the record only when the
\* record has no title text in any language.
C33_EPOTitleFallback ==
    (mp_kind = "epo" /\ mp_pc = "returned") =>
        LET titles == mp_record.titles
            english == TitledElements(titles, {"en"})
            any == TitledElements(titles, TitleLangs)
        IN /\ english # {} =>
                 mp_doc # Absent /\ \E i \in english : mp_doc[1].title = titles[i].text
           /\ (english = {} /\ any # {}) =>
                 mp_doc # Absent /\ \E i \in any : mp_doc[1].title = titles[i].text
           /\ mp_doc = Absent => any = {}

\* the entries of the orchestrator's log with the given operation
LogEntries(op) == {k \in 1..Len(cl_log) : cl_log[k].op = op}

\* C34: registry key, adapter name and document source agree: every document
\* the search of the adapter registered under k returns has source k, the
\* default output file of that adapter is the one named after k, and so that
\* file holds documents of source k only.
C34_RegistryNameSourceAgree ==
    cl_pc # "off" =>
        /\ \A k \in LogEntries("returned") :
              \A d \in 1..Len(cl_log[k].documents) :
                 <<cl_log[k].documents[d].source>> = cl_log[k].name
        /\ \A k \in LogEntries("append") :
              cl_output \in {None, ""} =>
                 cl_log[k].path = <<"data", cl_log[k].name, ".jsonl">>
        /\ \A n \in RegisteredNames :
              \A d \in 1..Len(cl_files[<<"data", <<n>>, ".jsonl">>]) :
                 cl_files[<<"data", <<n>>, ".jsonl">>][d].source = n

\* a run that wrote the documents of two sources to their default files
C34_Witness ==
    /\ cl_pc = "done" /\ cl_output = None
    /\ Cardinality({cl_log[k].name : k \in LogEntries("append")}) >= 2
    /\ \E n \in RegisteredNames : Len(cl_files[<<"data", <<n>>, ".jsonl">>]) = MaxDocs

\* the callers inside the with block of wait()
Holders == {t \in Threads : rl_pc[t] \in {"locked", "read", "sleeping", "stamp", "stamped"}}

\* C35: every call to wait() eventually returns, whatever the number of
\* callers, when the lock is fair; and the callers are served one at a time:
\* the lock is held from its acquisition to the return, the sleep included.
C35_WaitReturns ==
    /\ [](/\ Cardinality(Holders) <= 1
          /\ \A t \in Threads : t \in Holders <=> lock = t)
    /\ \A t \in Threads : (rl_pc[t] = "blocked") ~> (rl_pc[t] = "idle")

\* a caller sleeps inside wait() with the lock while another is blocked on it
C35_Witness ==
    \E t, u \in Threads :
        /\ rl_pc[t] = "sleeping" /\ lock = t /\ clock < rl_wake[t]
        /\ rl_pc[u] = "blocked"

\* the documents returned by the sources before the i-th, in source order,
\* that go to the path p
ReturnedBefore(i, p) ==
    ReturnedFor(SelectSeq(Returns, LAMBDA e : e.i < i), p)

\* C36: a run that stops with an error at the i-th source rolls nothing
\* back: every file holds the documents appended for the sources before the
\* i-th, as they were written; nothing is written for the i-th or a later
\* source, and no final total is reported.
C36_NoRollback ==
    cl_pc = "aborted" =>
        /\ cl_failed \in 1..Len(cl_names)
        /\ \A p \in Paths : cl_files[p] = ReturnedBefore(cl_failed, p)
        /\ \A k \in 1..Len(cl_log) :
              /\ cl_log[k].op = "append" => cl_log[k].i < cl_failed
              /\ cl_log[k].op # "report"

\* the third source of a run raised after the first two had their documents
\* appended to the one --output file
C36_Witness ==
    /\ cl_pc = "aborted" /\ cl_failed = 3 /\ cl_output = "o.jsonl"
    /\ Len(Appends) = 2
    /\ Len(cl_files[<<"o.jsonl">>]) = Appends[1].count + Appends[2].count

Transient == {"ConnectionError", "Timeout", "HTTPError"}

\* the page fetch has been given up: its exception left the fetch, or the
\* adapter caught it and ended pagination
GaveUp == rt_pc \in {"raised", "gave_up"}

\* C17: on every fetch path of every adapter, a page fetch given up after a
\* connection failure, timeout or HTTP error status was attempted again
\* first: it was invoked more than once, with a backoff between the attempts.
C17_TransientRetriedEverywhere ==
    (GaveUp /\ rt_outcomes # <<>> /\ rt_outcomes[Len(rt_outcomes)] \in Transient) =>
        /\ rt_invocations > 1
        /\ Len(rt_backoffs) = rt_invocations - 1

\* every upstream request so far came right after a wait() on the limiter
WaitBeforeEachRequest ==
    \A i \in 1..Len(rt_events) :
        rt_events[i] = "request" => (i > 1 /\ rt_events[i - 1] = "wait")

\* C29: within one adapter every upstream request (the initial search call
\* included) is issued after the call before it has ended, and is preceded by
\* a wait() on the adapter's own rate limiter.
C29_WaitBeforeEveryRequest ==
    rt_pc # "off" =>
        /\ WaitBeforeEachRequest
        /\ Len(rt_outcomes) <= rt_invocations
        /\ rt_invocations <= Len(rt_outcomes) + 1

\* C6: an operation wrapped by with_retry(max_attempts=n) that fails with a
\* transient error on every attempt is invoked exactly n times (5 for the USPTO
\* page fetch, 3 for the Google Patents HTML page fetch) and the final failure
\* is re-raised; if attempt k <= n is the first to succeed, its result is
\* returned after exactly k invocations.
C6_RetryCount ==
    LET n == IF rt_adapter = "uspto" THEN 5 ELSE 3
        k == Len(rt_outcomes)
    IN rt_adapter \in {"uspto", "google_patents"} =>
       /\ rt_invocations <= n
       /\ (rt_pc = "raised" /\ \A i \in 1..k : rt_outcomes[i] \in Transient)
            => rt_invocations = n /\ k = n /\ rt_result = rt_outcomes[n]
       /\ rt_pc = "returned"
            => /\ rt_invocations = k /\ k <= n
               /\ rt_outcomes[k] \in {"ok", "None"} /\ rt_result = rt_outcomes[k]
               /\ \A i \in 1..(k - 1) : rt_outcomes[i] \in Transient

\* C6 witness: the USPTO page fetch failed transiently five times and re-raised.
C6_Witness ==
    /\ rt_adapter = "uspto" /\ rt_pc = "raised" /\ rt_invocations = 5
    /\ \A i \in 1..5 : rt_outcomes[i] \in Transient
    /\ rt_result = rt_outcomes[5]

\* C7: a failure not classified as transient propagates to the caller at once:
\* the invocation that raised it is the last, no backoff wait follows it, and
\* when it is the first invocation the operation is invoked exactly once.
C7_NonTransientImmediate ==
    \A i \in 1..Len(rt_outcomes) :
        rt_outcomes[i] \in {"JSONDecodeError", "TooManyRedirects"}
            => /\ i = Len(rt_outcomes)
               /\ rt_pc = "raised" /\ rt_result = rt_outcomes[i]
               /\ rt_invocations = i
               /\ Len(rt_backoffs) = i - 1

\* C7 witness: the first invocation failed to parse the body and re-raised.
C7_Witness ==
    /\ rt_pc = "raised" /\ rt_outcomes = <<"JSONDecodeError">>
    /\ rt_invocations = 1 /\ rt_backoffs = <<>>

\* C8: in the retried page fetches the limiter's wait() is invoked exactly once
\* per attempt, retried attempts included, and always before that attempt's
\* HTTP request.
C8_WaitPerAttempt ==
    LET waits == SelectSeq(rt_events, LAMBDA e : e = "wait")
    IN rt_adapter \in {"uspto", "google_patents"} =>
       /\ Len(waits) = rt_invocations
       /\ \A i \in 1..Len(rt_events) :
            /\ rt_events[i] = "request" => i > 1 /\ rt_events[i - 1] = "wait"
            /\ rt_events[i] = "wait" =>
                 (i = Len(rt_events) /\ rt_pc = "request") \/
                 (i < Len(rt_events) /\ rt_events[i + 1] = "request")

\* C8 witness: a third attempt of the Google Patents page fetch has waited and
\* sent its request, as the two attempts before it.
C8_Witness ==
    /\ rt_adapter = "google_patents" /\ rt_attempt = 3
    /\ rt_events = <<"wait", "request", "wait", "request", "wait", "request">>

====
